---------------------------- MODULE Spec2Model ----------------------------
(***************************************************************************)
(* A model of the boosting control plane of miniboosts: the boosters'     *)
(* preprocess / boost / postprocess methods and the driver loop that      *)
(* calls them.  The booster under study is one record, `booster`, holding *)
(* the fields of the Rust struct; each method is an operator from the     *)
(* record (and the hypothesis the weak learner returned) to the new       *)
(* record, and each action applies one method the way the driver does.    *)
(*                                                                         *)
(* The weak learner is external: its answer is any classifier over the    *)
(* rows of the sample, a function Rows -> {-1, 1}.                        *)
(***************************************************************************)
EXTENDS Integers, Sequences, FiniteSets, TLC

VARIABLES
    sample,      \* the target vector y of the training sample (immutable)
    booster,     \* the fields of the booster struct
    pc,          \* where the caller is: "init", "running", "stopped", "post", "panicked"
    iteration,   \* the iteration number of the last boost call of this run
    ret,         \* what the last boost call returned
    wl_calls,    \* number of weak_learner.produce calls made in this run
    given,       \* the weighting handed to the weak learner by the last produce call
    produced,    \* the hypothesis the weak learner returned to that call
    output       \* the combined hypothesis returned by the last postprocess

vars == <<sample, booster, pc, iteration, ret, wl_calls, given, produced, output>>

-----------------------------------------------------------------------------
(* Bounds of the model *)

\* number of rows of the training sample
NumRows == 3

\* the driver is followed for at most this many boost calls per run
MaxRounds == 4

\* usize::MAX, the initial value of the counters; the largest 32-bit signed integer stands for it
UsizeMax == 2147483647

Rows == 1..NumRows
Labels == {-1, 1}

\* The classifiers a weak learner can return: the sign each one gives to every row.
Hypotheses == [Rows -> Labels]

\* The samples considered: every labelling of the rows whose first label is +1.
Targets == {t \in [Rows -> Labels] : t[1] = 1}

-----------------------------------------------------------------------------
(* Exact rational numbers <<numerator, denominator>>, denominator > 0, in lowest terms *)

Abs(x) == IF x < 0 THEN -x ELSE x

RECURSIVE Gcd(_, _)
Gcd(a, b) == IF b = 0 THEN a ELSE Gcd(b, a % b)

Rat(n, d) ==
    LET s == IF d < 0 THEN -1 ELSE 1
        g == Gcd(Abs(n), Abs(d))
    IN  IF n = 0 THEN <<0, 1>> ELSE <<(s * n) \div g, (s * d) \div g>>

RZero == <<0, 1>>
ROne == <<1, 1>>
RInt(k) == <<k, 1>>
RAdd(a, b) == Rat(a[1] * b[2] + b[1] * a[2], a[2] * b[2])
RSub(a, b) == Rat(a[1] * b[2] - b[1] * a[2], a[2] * b[2])
RDiv(a, b) == Rat(a[1] * b[2], a[2] * b[1])
RLt(a, b) == a[1] * b[2] < b[1] * a[2]
RLe(a, b) == a[1] * b[2] <= b[1] * a[2]
RMin(a, b) == IF RLe(a, b) THEN a ELSE b
RAbs(a) == <<Abs(a[1]), a[2]>>

\* the sum of the first n entries of a vector of integers
RECURSIVE SumTo(_, _)
SumTo(f, n) == IF n = 0 THEN 0 ELSE SumTo(f, n - 1) + f[n]

-----------------------------------------------------------------------------
(* Fixed-point reals with four decimals, for the quantities the code computes
   with ln and exp: the integer v stands for v / FpOne, rounded to nearest *)

FpOne == 10000
\* ln 2 in fixed point
FpLn2 == 6931

\* integer division rounded to nearest, b > 0
DivRound(a, b) ==
    IF a >= 0 THEN (a + b \div 2) \div b ELSE -(((-a) + b \div 2) \div b)
\* the product, computed from the integer and the fractional part of |b|
FpMul(a, b) ==
    LET sign == IF (a < 0) = (b < 0) THEN 1 ELSE -1
        x == IF a < 0 THEN -a ELSE a
        y == IF b < 0 THEN -b ELSE b
    IN  sign * (x * (y \div FpOne) + DivRound(x * (y % FpOne), FpOne))
FpDiv(a, b) == DivRound(a * FpOne, b)

\* the terms r^n / n! from n = k on, given the term before
RECURSIVE FpExpSeries(_, _, _)
FpExpSeries(r, term, k) ==
    LET t == DivRound(term * r, FpOne * k)
    IN  IF t = 0 THEN 0 ELSE t + FpExpSeries(r, t, k + 1)

RECURSIVE FpHalve(_, _)
FpHalve(v, k) == IF k = 0 \/ v = 0 THEN v ELSE FpHalve(DivRound(v, 2), k - 1)

\* f64::exp for an argument x <= 0: exp(x) = 2^(-k) / exp(r) with -x = k ln 2 + r;
\* the result is positive, the smallest positive value standing for what is below it
FpExp(x) ==
    LET k == (-x) \div FpLn2
        r == (-x) - k * FpLn2
        er == FpOne + FpExpSeries(r, FpOne, 1)
        v == FpHalve(FpDiv(FpOne, er), k)
    IN  IF v = 0 THEN 1 ELSE v

RECURSIVE FpAtanhSeries(_, _, _)
FpAtanhSeries(z2, term, k) ==
    LET t == FpMul(term, z2)
    IN  IF t = 0 THEN 0 ELSE DivRound(t, k) + FpAtanhSeries(z2, t, k + 2)

\* f64::ln for x > 0: x = 2^k y with y in [1, 2), and ln y = 2 atanh((y - 1) / (y + 1))
RECURSIVE FpLnNorm(_, _)
FpLnNorm(x, k) ==
    IF x >= 2 * FpOne THEN FpLnNorm(DivRound(x, 2), k + 1)
    ELSE IF x < FpOne THEN FpLnNorm(2 * x, k - 1)
    ELSE LET z == FpDiv(x - FpOne, x + FpOne)
         IN  2 * (z + FpAtanhSeries(FpMul(z, z), z, 3)) + k * FpLn2
FpLn(x) == FpLnNorm(x, 0)

-----------------------------------------------------------------------------
(* Values of type f64 that are not rationals *)

\* NaN, as an entry of a vector of rationals
NaN == <<0, 0>>
IsNaN(x) == x[2] = 0
HasNaN(vec) == \E i \in DOMAIN vec : IsNaN(vec[i])

\* A weight on a hypothesis: a rational, or ln(v) / 2 for a rational v > 0, or +-inf
WNum(r) == [tag |-> "num", v |-> r]
WHalfLn(x) == [tag |-> "half_ln", v |-> x]
WPosInf == [tag |-> "+inf", v |-> ROne]
WNegInf == [tag |-> "-inf", v |-> ROne]
\* w != 0.0
WNonZero(w) ==
    CASE w.tag = "num" -> w.v # RZero
      [] w.tag = "half_ln" -> w.v # ROne
      [] OTHER -> TRUE

\* `x as usize` for x = num / den >= 0 given as a quotient of integers: truncation
AsUsize(num, den) == IF den = 0 THEN UsizeMax ELSE num \div den

-----------------------------------------------------------------------------
(* What AdaBoost and AdaBoostV share *)

\* A vector of rationals as integers over one denominator: the least common
\* multiple of the first n denominators, and the numerators over it
RECURSIVE CommonDen(_, _)
CommonDen(vec, n) ==
    IF n = 0 THEN 1
    ELSE LET d == CommonDen(vec, n - 1)
         IN  (d \div Gcd(d, vec[n][2])) * vec[n][2]
Numerators(vec, den) == [i \in DOMAIN vec |-> vec[i][1] * (den \div vec[i][2])]

\* margins[i] = y_i * h.confidence(i)
Margins(h, target) == [i \in Rows |-> target[i] * h[i]]

\* edge = sum_i margins[i] * dist[i]
Edge(margins, dist) ==
    IF HasNaN(dist) THEN NaN
    ELSE LET den == CommonDen(dist, NumRows)
             num == Numerators(dist, den)
         IN  Rat(SumTo([i \in Rows |-> margins[i] * num[i]], NumRows), den)

\* edge.signum()
Signum(x) == IF RLt(x, RZero) THEN RInt(-1) ELSE ROne

UniformDist == [i \in Rows |-> Rat(1, NumRows)]

\* The log-domain update d_i <- exp(ln d_i - weight * margins[i] - normalizer), where
\* normalizer = ln sum_j exp(ln d_j - weight * margins[j]) is folded from the
\* smallest entry up.  With x = exp(2 * weight) and margins in {-1, 1} this is
\* d_i * x^((1 - margins[i]) / 2) / sum_j d_j * x^((1 - margins[j]) / 2).
ExpUpdate(dist, margins, x) ==
    LET num == Numerators(dist, CommonDen(dist, NumRows))
        unnorm == [i \in Rows |-> IF margins[i] = 1 THEN num[i] * x[2] ELSE num[i] * x[1]]
        normalizer == SumTo(unnorm, NumRows)
    IN  [i \in Rows |-> Rat(unnorm[i], normalizer)]

\* The same update for weight = +inf (sign = 1) or -inf (sign = -1): the entries
\* ln d_i - weight * margins[i] are -inf and +inf; the fold of the normalizer
\* meets inf - inf = NaN as soon as two entries are equal, and is +inf otherwise;
\* exp(+inf - normalizer) is NaN, exp(-inf - normalizer) is NaN or 0.
InfUpdate(dist, margins, sign) ==
    LET neg == {i \in Rows : margins[i] = sign}
        pos == Rows \ neg
        nan_normalizer == Cardinality(neg) >= 2 \/ Cardinality(pos) >= 2
    IN  [i \in Rows |-> IF i \in pos \/ nan_normalizer THEN NaN ELSE RZero]

-----------------------------------------------------------------------------
(* AdaBoost *)

AdaBoost_init ==
    [alg |-> "AdaBoost",
     dist |-> UniformDist,
     tolerance |-> Rat(1, NumRows + 1),
     weighted_classifiers |-> <<>>,
     max_iter |-> UsizeMax,
     terminated |-> UsizeMax]

AdaBoost_tolerance(b, tolerance) == [b EXCEPT !.tolerance = tolerance]

\* (n_sample.ln() / self.tolerance.powi(2)) as usize
AdaBoost_max_loop(b) ==
    AsUsize(FpLn(NumRows * FpOne) * b.tolerance[2] * b.tolerance[2],
            FpOne * b.tolerance[1] * b.tolerance[1])

\* update_params for an edge with |edge| < 1: the new dist and the weight
AdaBoost_update_params(b, margins, edge) ==
    LET x == RDiv(RAdd(ROne, edge), RSub(ROne, edge))
    IN  [booster |-> [b EXCEPT !.dist = ExpUpdate(b.dist, margins, x)],
         weight |-> WHalfLn(x)]

AdaBoost_preprocess(b) ==
    [b EXCEPT !.dist = UniformDist,
              !.weighted_classifiers = <<>>,
              !.max_iter = AdaBoost_max_loop(b)]

\* A faulty boost: the test of max_iter is missing
AdaBoost_boost_NoMaxIterTest(b, h, iter, target) ==
    LET margins == Margins(h, target)
        edge == Edge(margins, b.dist)
    IN  IF RLe(ROne, RAbs(edge))
        THEN [booster |-> [b EXCEPT !.terminated = iter,
                                    !.weighted_classifiers =
                                        <<[w |-> WNum(Signum(edge)), h |-> h]>>],
              flow |-> "Terminate", called |-> TRUE, panic |-> FALSE]
        ELSE LET u == AdaBoost_update_params(b, margins, edge)
             IN  [booster |-> [u.booster EXCEPT !.weighted_classifiers =
                                   Append(@, [w |-> u.weight, h |-> h])],
                  flow |-> "Continue", called |-> TRUE, panic |-> FALSE]

AdaBoost_boost(b, h, iter, target) ==
    IF b.max_iter < iter
    THEN [booster |-> b, flow |-> "Terminate", called |-> FALSE, panic |-> FALSE]
    ELSE
    LET margins == Margins(h, target)
        edge == Edge(margins, b.dist)
    IN  IF RLe(ROne, RAbs(edge))
        THEN [booster |-> [b EXCEPT !.terminated = iter,
                                    !.weighted_classifiers =
                                        <<[w |-> WNum(Signum(edge)), h |-> h]>>],
              flow |-> "Terminate", called |-> TRUE, panic |-> FALSE]
        ELSE LET u == AdaBoost_update_params(b, margins, edge)
             IN  [booster |-> [u.booster EXCEPT !.weighted_classifiers =
                                   Append(@, [w |-> u.weight, h |-> h])],
                  flow |-> "Continue", called |-> TRUE, panic |-> FALSE]

\* CombinedHypothesis::from(inner): the weighted hypotheses and the constant 0.0
CombinedHypothesis_from(inner) ==
    [kind |-> "CombinedHypothesis", inner |-> inner, constant |-> RZero]

AdaBoost_postprocess(b) ==
    [booster |-> b, f |-> CombinedHypothesis_from(b.weighted_classifiers)]

-----------------------------------------------------------------------------
(* AdaBoostV *)

AdaBoostV_init ==
    [alg |-> "AdaBoostV",
     tolerance |-> Rat(1, NumRows),
     rho |-> ROne,
     gamma |-> ROne,
     dist |-> UniformDist,
     weights |-> <<>>,
     classifiers |-> <<>>,
     max_iter |-> UsizeMax,
     terminated |-> UsizeMax]

AdaBoostV_tolerance(b, tolerance) == [b EXCEPT !.tolerance = tolerance]

\* (2.0 * (m as f64).ln() / self.tolerance.powi(2)) as usize
AdaBoostV_max_loop(b) ==
    AsUsize(2 * FpLn(NumRows * FpOne) * b.tolerance[2] * b.tolerance[2],
            FpOne * b.tolerance[1] * b.tolerance[1])

\* update_params for an edge with |edge| < 1 and a dist without NaN.
\* weight = ln((1 + edge) / (1 - edge)) / 2 - ln((1 + rho) / (1 - rho)) / 2:
\*   |rho| < 1: finite, exp(2 * weight) is the quotient of the two ratios;
\*   rho = -1:  ln(0) = -inf, weight = +inf;   rho = 1: ln(2 / 0) = +inf, weight = -inf;
\*   |rho| > 1: ln of a negative number is NaN, every entry of dist becomes NaN and
\*              partial_cmp(..).unwrap() panics in the sort.
AdaBoostV_update_params(b, margins, edge) ==
    LET gamma == RMin(edge, b.gamma)
        rho == RSub(gamma, b.tolerance)
        b1 == [b EXCEPT !.gamma = gamma, !.rho = rho]
        e == RDiv(RAdd(ROne, edge), RSub(ROne, edge))
    IN  IF RLt(rho, RInt(-1)) \/ RLt(ROne, rho)
        THEN [booster |-> [b1 EXCEPT !.dist = [i \in Rows |-> NaN]],
              weight |-> WNum(NaN), panic |-> TRUE]
        ELSE IF rho = RInt(-1)
        THEN [booster |-> [b1 EXCEPT !.dist = InfUpdate(b.dist, margins, 1)],
              weight |-> WPosInf, panic |-> FALSE]
        ELSE IF rho = ROne
        THEN [booster |-> [b1 EXCEPT !.dist = InfUpdate(b.dist, margins, -1)],
              weight |-> WNegInf, panic |-> FALSE]
        ELSE LET m == RDiv(RAdd(ROne, rho), RSub(ROne, rho))
                 x == RDiv(e, m)
             IN  [booster |-> [b1 EXCEPT !.dist = ExpUpdate(b.dist, margins, x)],
                  weight |-> WHalfLn(x), panic |-> FALSE]

AdaBoostV_preprocess(b) ==
    [b EXCEPT !.dist = UniformDist,
              !.rho = ROne,
              !.gamma = ROne,
              !.weights = <<>>,
              !.classifiers = <<>>,
              !.max_iter = AdaBoostV_max_loop(b)]

AdaBoostV_boost(b, h, iter, target) ==
    IF b.max_iter < iter
    THEN [booster |-> b, flow |-> "Terminate", called |-> FALSE, panic |-> FALSE]
    ELSE
    LET margins == Margins(h, target)
        edge == Edge(margins, b.dist)
    IN  IF IsNaN(edge)
        \* NaN.abs() >= 1.0 is false; edge.min(gamma) is gamma; the weight and every
        \* entry of dist are NaN and the sort panics
        THEN [booster |-> [b EXCEPT !.rho = RSub(b.gamma, b.tolerance),
                                    !.dist = [i \in Rows |-> NaN]],
              flow |-> "Continue", called |-> TRUE, panic |-> TRUE]
        ELSE IF RLe(ROne, RAbs(edge))
        THEN [booster |-> [b EXCEPT !.terminated = iter,
                                    !.weights = <<WNum(Signum(edge))>>,
                                    !.classifiers = <<h>>],
              flow |-> "Terminate", called |-> TRUE, panic |-> FALSE]
        ELSE LET u == AdaBoostV_update_params(b, margins, edge)
             IN  IF u.panic
                 THEN [booster |-> u.booster, flow |-> "Continue",
                       called |-> TRUE, panic |-> TRUE]
                 ELSE [booster |-> [u.booster EXCEPT !.weights = Append(@, u.weight),
                                                     !.classifiers = Append(@, h)],
                       flow |-> "Continue", called |-> TRUE, panic |-> FALSE]

\* the (weight, classifier) pairs with weight != 0.0
RECURSIVE ZipNonZero(_, _, _)
ZipNonZero(weights, classifiers, k) ==
    IF k > Len(weights) \/ k > Len(classifiers) THEN <<>>
    ELSE (IF WNonZero(weights[k]) THEN <<[w |-> weights[k], h |-> classifiers[k]]>> ELSE <<>>)
         \o ZipNonZero(weights, classifiers, k + 1)

AdaBoostV_postprocess(b) ==
    [booster |-> b, f |-> CombinedHypothesis_from(ZipNonZero(b.weights, b.classifiers, 1))]

-----------------------------------------------------------------------------
(* CERLPBoost, in fixed point *)

\* 1.0 / n_sample
FpUni == DivRound(FpOne, NumRows)

\* ceil(a / b) for a >= 0, b > 0
CeilDiv(a, b) == (a + b - 1) \div b

\* ln(m / nu)
CERLPBoost_ln_part(b) == FpLn(FpDiv(NumRows * FpOne, b.nu))

CERLPBoost_init ==
    [alg |-> "CERLPBoost",
     dist |-> [i \in Rows |-> FpUni],
     eta |-> FpDiv(2 * FpLn(NumRows * FpOne), FpUni),
     tolerance |-> FpUni,
     nu |-> FpOne,
     dual_optval |-> FpOne,
     classifiers |-> <<>>,
     max_iter |-> UsizeMax,
     terminated |-> UsizeMax]

\* self.eta = (m / self.nu).ln() / self.tolerance
CERLPBoost_regularization_param(b) ==
    [b EXCEPT !.eta = FpDiv(CERLPBoost_ln_part(b), b.tolerance)]

\* assert!((1.0..=n_sample).contains(&nu)) with n_sample = self.dist.len()
CERLPBoost_nu_ok(b, nu) == FpOne <= nu /\ nu <= Len(b.dist) * FpOne

\* nu(nu), for a nu that passes assert!((1.0..=n_sample).contains(&nu))
CERLPBoost_nu(b, nu) == CERLPBoost_regularization_param([b EXCEPT !.nu = nu])

\* tolerance(tolerance) stores tolerance / 2.0
CERLPBoost_tolerance(b, tolerance) == [b EXCEPT !.tolerance = DivRound(tolerance, 2)]

\* (8.0 * (m / self.nu).ln() / self.tolerance.powi(2)).ceil() as usize
CERLPBoost_max_loop(b) ==
    CeilDiv(8 * CERLPBoost_ln_part(b) * FpOne, b.tolerance * b.tolerance)

\* prediction(i, sample, classifiers) = sum of w * h.confidence(i)
CERLPBoost_prediction(i, classifiers) ==
    SumTo([k \in DOMAIN classifiers |-> classifiers[k].w * classifiers[k].h[i]],
          Len(classifiers))

\* sum_i d_i * y_i * h.confidence(i)
FpEdge(h, target, dist) == SumTo([i \in Rows |-> dist[i] * target[i] * h[i]], NumRows)

\* the indices in non-increasing order of s, equal entries in index order (a stable sort)
RECURSIVE SortDescending(_, _)
SortDescending(s, remaining) ==
    IF remaining = {} THEN <<>>
    ELSE LET first == CHOOSE i \in remaining :
                          \A j \in remaining : s[i] > s[j] \/ (s[i] = s[j] /\ i <= j)
         IN  <<first>> \o SortDescending(s, remaining \ {first})

\* sum of e over the positions k.. of the order
RECURSIVE SuffixSum(_, _, _)
SuffixSum(e, order, k) ==
    IF k > Len(order) THEN 0 ELSE e[order[k]] + SuffixSum(e, order, k + 1)

\* The while loop of update_distribution_mut, for the position k of the order
\* (k - 1 entries are capped so far).  With e_j = exp(s_j - max s) and S the sum
\* of e over the positions from k on, xi = (1 - (k - 1) / nu) / S, and the test
\* log_xi + d + log_cap <= 0 is (nu - (k - 1)) * e_k <= S.  When it holds every
\* remaining entry becomes xi * e_j; otherwise the entry becomes ub = 1 / nu.
\* For 1 - (k - 1) / nu < 0 the logarithm is NaN and the test is false.
RECURSIVE CERLPBoost_cap(_, _, _, _, _)
CERLPBoost_cap(dist, e, order, nu, k) ==
    IF k > Len(order) THEN dist
    ELSE LET room == nu - (k - 1) * FpOne
             sum == SuffixSum(e, order, k)
         IN  IF room >= 0 /\ room * e[order[k]] <= sum * FpOne
             THEN [j \in Rows |->
                     IF \E p \in k..Len(order) : order[p] = j
                     THEN DivRound(room * DivRound(e[j] * FpOne, sum), nu)
                     ELSE dist[j]]
             ELSE CERLPBoost_cap([dist EXCEPT ![order[k]] = FpDiv(FpOne, nu)],
                                 e, order, nu, k + 1)

Max(a, b) == IF a >= b THEN a ELSE b
RECURSIVE MaxTo(_, _)
MaxTo(f, n) == IF n = 1 THEN f[1] ELSE Max(MaxTo(f, n - 1), f[n])

CERLPBoost_update_distribution_mut(b, target) ==
    LET s == [i \in Rows |-> -FpMul(b.eta, target[i] * CERLPBoost_prediction(i, b.classifiers))]
        top == MaxTo(s, NumRows)
        e == [i \in Rows |-> FpExp(s[i] - top)]
        order == SortDescending(s, Rows)
    IN  [b EXCEPT !.dist = CERLPBoost_cap(s, e, order, b.nu, 1)]

\* weight = 0.0.max(1.0.min(numer / denom)); numer / denom is +inf for denom = 0
CERLPBoost_weight(b, gap_vec, dist) ==
    LET numer == DivRound(SumTo([i \in Rows |-> gap_vec[i] * dist[i]], NumRows), FpOne)
        inf_norm == MaxTo([i \in Rows |-> Abs(gap_vec[i])], NumRows)
        denom == FpMul(b.eta, FpMul(inf_norm, inf_norm))
    IN  IF denom = 0 THEN (IF numer < 0 THEN 0 ELSE FpOne)
        ELSE Max(0, IF FpDiv(numer, denom) > FpOne THEN FpOne ELSE FpDiv(numer, denom))

\* A faulty update: a stored classifier that equals the new one is scaled as well
CERLPBoost_update_clf_weight_mut_Convex(b, new_clf, gap_vec) ==
    LET weight == CERLPBoost_weight(b, gap_vec, b.dist)
        already_exist == \E k \in DOMAIN b.classifiers : b.classifiers[k].h = new_clf
        updated == [k \in DOMAIN b.classifiers |->
                      IF b.classifiers[k].h = new_clf
                      THEN [b.classifiers[k] EXCEPT !.w = FpMul(@, FpOne - weight) + weight]
                      ELSE [b.classifiers[k] EXCEPT !.w = FpMul(@, FpOne - weight)]]
    IN  [b EXCEPT !.classifiers =
            IF already_exist THEN updated ELSE Append(updated, [h |-> new_clf, w |-> weight])]

\* the loop over the stored classifiers, and the push of a new one
CERLPBoost_update_clf_weight_mut(b, new_clf, gap_vec) ==
    LET weight == CERLPBoost_weight(b, gap_vec, b.dist)
        already_exist == \E k \in DOMAIN b.classifiers : b.classifiers[k].h = new_clf
        updated == [k \in DOMAIN b.classifiers |->
                      IF b.classifiers[k].h = new_clf
                      THEN [b.classifiers[k] EXCEPT !.w = @ + weight]
                      ELSE [b.classifiers[k] EXCEPT !.w = FpMul(@, FpOne - weight)]]
    IN  [b EXCEPT !.classifiers =
            IF already_exist THEN updated ELSE Append(updated, [h |-> new_clf, w |-> weight])]

\* assert!((0.0..1.0).contains(&self.tolerance)) of preprocess
CERLPBoost_tolerance_ok(b) == 0 <= b.tolerance /\ b.tolerance < FpOne

CERLPBoost_preprocess(b) ==
    LET b1 == CERLPBoost_regularization_param([b EXCEPT !.dist = [i \in Rows |-> FpUni]])
        max_iter == CERLPBoost_max_loop(b1)
    IN  [b1 EXCEPT !.max_iter = max_iter,
                   !.terminated = max_iter,
                   !.classifiers = <<>>]

\* y_i * (h.confidence(i) - prediction(i))
CERLPBoost_gap_vec(b, h, target) ==
    [i \in Rows |-> target[i] * (h[i] * FpOne - CERLPBoost_prediction(i, b.classifiers))]

\* sum_i gap_vec[i] * dist[i]
CERLPBoost_diff(gap_vec, dist) ==
    DivRound(SumTo([i \in Rows |-> gap_vec[i] * dist[i]], NumRows), FpOne)

\* A faulty boost: the gap is tested against twice the tolerance
CERLPBoost_boost_LooseTest(b, h, iter, target) ==
    IF b.max_iter < iter
    THEN [booster |-> b, flow |-> "Terminate", called |-> FALSE, dist |-> <<>>]
    ELSE
    LET b1 == CERLPBoost_update_distribution_mut(b, target)
        gap_vec == CERLPBoost_gap_vec(b1, h, target)
        diff == CERLPBoost_diff(gap_vec, b1.dist)
    IN  IF diff <= 2 * b1.tolerance
        THEN [booster |-> [b1 EXCEPT !.terminated = iter],
              flow |-> "Terminate", called |-> TRUE, dist |-> b1.dist]
        ELSE [booster |-> CERLPBoost_update_clf_weight_mut(b1, h, gap_vec),
              flow |-> "Continue", called |-> TRUE, dist |-> b1.dist]

CERLPBoost_boost(b, h, iter, target) ==
    IF b.max_iter < iter
    THEN [booster |-> b, flow |-> "Terminate", called |-> FALSE, dist |-> <<>>]
    ELSE
    LET b1 == CERLPBoost_update_distribution_mut(b, target)
        gap_vec == CERLPBoost_gap_vec(b1, h, target)
        diff == CERLPBoost_diff(gap_vec, b1.dist)
    IN  IF diff <= b1.tolerance
        THEN [booster |-> [b1 EXCEPT !.terminated = iter],
              flow |-> "Terminate", called |-> TRUE, dist |-> b1.dist]
        ELSE [booster |-> CERLPBoost_update_clf_weight_mut(b1, h, gap_vec),
              flow |-> "Continue", called |-> TRUE, dist |-> b1.dist]

\* self.dual_optval = the largest edge of a stored classifier; reduce(..).unwrap()
\* panics when there is none
CERLPBoost_dual_objval_mut(b, target) ==
    [b EXCEPT !.dual_optval =
        MaxTo([k \in DOMAIN b.classifiers |-> FpEdge(b.classifiers[k].h, target, b.dist)],
              Len(b.classifiers))]

\* the (weight, classifier) pairs with weight != 0.0, in the order of the list
RECURSIVE CERLPBoost_nonzero(_, _)
CERLPBoost_nonzero(classifiers, k) ==
    IF k > Len(classifiers) THEN <<>>
    ELSE (IF classifiers[k].w # 0 THEN <<[w |-> classifiers[k].w, h |-> classifiers[k].h]>>
          ELSE <<>>) \o CERLPBoost_nonzero(classifiers, k + 1)

CERLPBoost_postprocess(b, target) ==
    IF b.classifiers = <<>>
    THEN [booster |-> b, f |-> [kind |-> "none"], panic |-> TRUE]
    ELSE [booster |-> CERLPBoost_dual_objval_mut(b, target),
          f |-> CombinedHypothesis_from(CERLPBoost_nonzero(b.classifiers, 1)),
          panic |-> FALSE]

-----------------------------------------------------------------------------
(* GraphSepBoost *)

\* the pairs (i, j), i < j, in the order of the nested loops `for i in 0..n { for j in i+1..n`
RECURSIVE PairsFrom(_, _)
PairsFrom(i, j) ==
    IF i > NumRows THEN <<>>
    ELSE IF j > NumRows THEN PairsFrom(i + 1, i + 2)
    ELSE <<<<i, j>>>> \o PairsFrom(i, j + 1)
RowPairs == PairsFrom(1, 2)

GraphSepBoost_init ==
    [alg |-> "GraphSepBoost",
     hypotheses |-> <<>>,
     edges |-> <<>>,
     n_edges |-> UsizeMax]

\* the sum of edges.len() over the rows
GSB_count_edges(edges) == SumTo([i \in DOMAIN edges |-> Cardinality(edges[i])], Len(edges))

\* the insertion loop of preprocess: edge (i, j) for every pair with different targets
RECURSIVE GSB_insert_edges(_, _, _)
GSB_insert_edges(edges, target, k) ==
    IF k > Len(RowPairs) THEN edges
    ELSE LET i == RowPairs[k][1]
             j == RowPairs[k][2]
         IN  IF target[i] # target[j]
             THEN GSB_insert_edges(
                      [edges EXCEPT ![i] = @ \cup {j}, ![j] = @ \cup {i}], target, k + 1)
             ELSE GSB_insert_edges(edges, target, k + 1)

\* A faulty preprocess: each edge is inserted at its smaller endpoint only
GraphSepBoost_preprocess_OneWay(b, target) ==
    LET edges == [i \in Rows |-> {j \in Rows : i < j /\ target[i] # target[j]}]
    IN  [b EXCEPT !.edges = edges,
                  !.n_edges = GSB_count_edges(edges),
                  !.hypotheses = <<>>]

GraphSepBoost_preprocess(b, target) ==
    LET edges == GSB_insert_edges([i \in Rows |-> {}], target, 1)
    IN  [b EXCEPT !.edges = edges,
                  !.n_edges = GSB_count_edges(edges),
                  !.hypotheses = <<>>]

\* the removal loop of update_params: edge (i, j) goes when h separates i and j
RECURSIVE GSB_remove_edges(_, _, _)
GSB_remove_edges(edges, predictions, k) ==
    IF k > Len(RowPairs) THEN edges
    ELSE LET i == RowPairs[k][1]
             j == RowPairs[k][2]
         IN  IF predictions[i] # predictions[j]
             THEN GSB_remove_edges(
                      [edges EXCEPT ![i] = @ \ {j}, ![j] = @ \ {i}], predictions, k + 1)
             ELSE GSB_remove_edges(edges, predictions, k + 1)

\* A faulty update_params: the test is inverted, an edge goes when h predicts
\* the same label for its two rows
GraphSepBoost_update_params_SameLabel(b, h) ==
    [b EXCEPT !.edges = [i \in Rows |-> b.edges[i] \ {j \in Rows : i # j /\ h[i] = h[j]}]]

\* A faulty update_params: a separated edge is removed at its smaller endpoint only
GraphSepBoost_update_params_OneWay(b, h) ==
    [b EXCEPT !.edges = [i \in Rows |-> b.edges[i] \ {j \in Rows : i < j /\ h[i] # h[j]}]]

GraphSepBoost_update_params(b, h) ==
    [b EXCEPT !.edges = GSB_remove_edges(b.edges, h, 1)]

\* the weighting handed to the weak learner: |edges[i]| / n_edges
GraphSepBoost_dist(b) ==
    [i \in Rows |-> Rat(Cardinality(b.edges[i]), b.n_edges)]

\* A faulty boost: it goes on after a round that removed no edge
GraphSepBoost_boost_NoStallTest(b, h, iter) ==
    IF b.n_edges = 0
    THEN [booster |-> b, flow |-> "Break", value |-> iter, called |-> FALSE, dist |-> <<>>]
    ELSE
    LET dist == GraphSepBoost_dist(b)
        b1 == GraphSepBoost_update_params(b, h)
        b2 == [b1 EXCEPT !.hypotheses = Append(@, h)]
    IN  [booster |-> [b2 EXCEPT !.n_edges = GSB_count_edges(b2.edges)],
         flow |-> "Continue", value |-> 0, called |-> TRUE, dist |-> dist]

\* boost(weak_learner, iteration), h being what weak_learner.produce returns when called
GraphSepBoost_boost(b, h, iter) ==
    IF b.n_edges = 0
    THEN [booster |-> b, flow |-> "Break", value |-> iter, called |-> FALSE, dist |-> <<>>]
    ELSE
    LET dist == GraphSepBoost_dist(b)
        b1 == GraphSepBoost_update_params(b, h)
        b2 == [b1 EXCEPT !.hypotheses = Append(@, h)]
        n_edges == GSB_count_edges(b2.edges)
    IN  IF b.n_edges = n_edges
        THEN [booster |-> b2, flow |-> "Break", value |-> iter + 1,
              called |-> TRUE, dist |-> dist]
        ELSE [booster |-> [b2 EXCEPT !.n_edges = n_edges], flow |-> "Continue", value |-> 0,
              called |-> TRUE, dist |-> dist]

\* postprocess takes the hypotheses out of the booster (std::mem::take) and aggregates them
GraphSepBoost_postprocess(b) ==
    [booster |-> [b EXCEPT !.hypotheses = <<>>],
     f |-> [kind |-> "NaiveAggregation", hypotheses |-> b.hypotheses]]

-----------------------------------------------------------------------------
(* LPBoost and the linear program it solves *)

\* The values of the LP variables d[i] are followed on the grid k / LpDen
LpDen == 2 * NumRows

SetMin(S) == CHOOSE v \in S : \A w \in S : v <= w
SetMax(S) == CHOOSE v \in S : \A w \in S : w <= v

\* the points of the grid that satisfy sum_is_1
LpSimplex == {d \in [Rows -> 0..LpDen] : SumTo(d, NumRows) = LpDen}

\* and the bounds 0.0..upper_bound of the variables d[i]
LPModel_feasible(upper_bound) ==
    {d \in LpSimplex : \A i \in Rows : d[i] * upper_bound[2] <= upper_bound[1] * LpDen}

\* the corners of that set: at most one variable strictly between its bounds
LPModel_corners(upper_bound) ==
    {d \in LPModel_feasible(upper_bound) :
        Cardinality({i \in Rows : /\ d[i] > 0
                                  /\ (d[i] + 1) * upper_bound[2] <= upper_bound[1] * LpDen}) <= 1}

\* the left side sum_i yh[i] * d[i] of a hypothesis constraint at d, times LpDen
LpEdge(yh, d) == SumTo([i \in Rows |-> yh[i] * d[i]], NumRows)

\* the smallest gamma that satisfies every constraint edge_j <= gamma at d
LpGammaAt(constrs, d) == SetMax({LpEdge(constrs[j], d) : j \in DOMAIN constrs})

\* The multipliers of t constraints, times -LpDen: the dual variables of the
\* constraints edge_j - gamma <= 0 of a minimisation are <= 0 and, gamma being
\* free with cost 1, sum to -1
LpMultipliers ==
    [t \in 1..MaxRounds |-> {w \in [1..t -> 0..LpDen] : SumTo(w, t) = LpDen}]

\* the dual objective at w: min over d of sum_j w[j] * edge_j(d), times LpDen^2;
\* a linear function takes its minimum at a corner
LpDualAt(constrs, w, corners) ==
    SetMin({SumTo([j \in DOMAIN constrs |-> w[j] * LpEdge(constrs[j], d)], Len(constrs)) :
               d \in corners})

\* the points of a set of grid points that do not lie between two others of the set
LpExtreme(S) ==
    {d \in S : \A e \in S : e = d \/ [i \in DOMAIN d |-> 2 * d[i] - e[i]] \notin S}

\* What model.optimize() can leave in the attributes X and Pi with the status
\* Optimal: the optimum of "minimise gamma subject to sum_is_1, the bounds and
\* constrs" with a basic optimal solution d and basic optimal multipliers, each
\* one an extreme point of the optimal ones.  A grid point and multipliers with
\* equal primal and dual value are optimal; a program with no such pair on the
\* grid has no answer here.
LPModel_optimize(constrs, upper_bound) ==
    LET feasible == {d : d \in LPModel_feasible(upper_bound)}
        corners == {d : d \in LPModel_corners(upper_bound)}
        opt == SetMin({LpGammaAt(constrs, d) : d \in feasible})
        primal == {d : d \in {e \in feasible : LpGammaAt(constrs, e) = opt}}
        dual == {w : w \in {v \in LpMultipliers[Len(constrs)] :
                                LpDualAt(constrs, v, corners) = opt * LpDen}}
    IN  {[status |-> "Optimal",
          x |-> [i \in Rows |-> Rat(d[i], LpDen)],
          gamma |-> Rat(opt, LpDen),
          pi |-> [j \in DOMAIN constrs |-> Rat(-w[j], LpDen)]] :
            d \in LpExtreme(primal), w \in LpExtreme(dual)}

\* The statuses the solver reports after optimize(); "Numeric" stands for every
\* status that is none of the other four
SolverStatuses == {"Optimal", "SubOptimal", "Infeasible", "InfOrUnbd", "Numeric"}

\* What optimize() can leave in the model: an optimal solution, or any other
\* status and no solution
Solver_optimize(constrs, upper_bound) ==
    LET optimal == LPModel_optimize(constrs, upper_bound)
    IN  IF optimal = {} THEN {}
        ELSE optimal \cup {[status |-> st, x |-> <<>>, gamma |-> RZero, pi |-> <<>>] :
                               st \in SolverStatuses \ {"Optimal"}}

\* LPModel::init(n_sample, upper_bound): no hypothesis constraint, nothing solved
LPModel_init(upper_bound) ==
    [upper_bound |-> upper_bound, constrs |-> <<>>, status |-> "Loaded",
     x |-> <<>>, gamma |-> RZero, pi |-> <<>>]

\* if status != Status::Optimal { panic!(..) }
LPModel_status_ok(status) == status = "Optimal"

\* LPModel::update(.., h): add the constraint of h and take the solver's answer
LPModel_update(lp, yh, sol) ==
    [lp EXCEPT !.constrs = Append(@, yh), !.status = sol.status,
               !.x = sol.x, !.gamma = sol.gamma, !.pi = sol.pi]

\* LPModel::distribution(): the attribute X of the variables d[i]
LPModel_distribution(lp) == lp.x

\* A faulty weight(): the attribute Pi as it is, without the absolute value
LPModel_weight_Signed(lp) == [j \in DOMAIN lp.constrs |-> lp.pi[j]]

\* LPModel::weight(): the absolute value of the attribute Pi of every hypothesis constraint
LPModel_weight(lp) == [j \in DOMAIN lp.constrs |-> RAbs(lp.pi[j])]

LPBoost_init ==
    [alg |-> "LPBoost",
     dist |-> UniformDist,
     gamma_hat |-> ROne,
     tolerance |-> Rat(1, NumRows),
     n_sample |-> NumRows,
     nu |-> ROne,
     lp_model |-> [upper_bound |-> RZero, constrs |-> <<>>, status |-> "Loaded",
                   x |-> <<>>, gamma |-> RZero, pi |-> <<>>],
     has_lp_model |-> FALSE,
     classifiers |-> <<>>,
     weights |-> <<>>,
     terminated |-> UsizeMax]

\* A faulty assert: only the lower end of the range is tested
LPBoost_nu_ok_LowerOnly(b, nu) == RLe(ROne, nu)

\* assert!((1.0..=n_sample).contains(&nu))
LPBoost_nu_ok(b, nu) == RLe(ROne, nu) /\ RLe(nu, RInt(b.n_sample))

LPBoost_nu(b, nu) ==
    IF LPBoost_nu_ok(b, nu)
    THEN [booster |-> [b EXCEPT !.nu = nu], panic |-> FALSE]
    ELSE [booster |-> b, panic |-> TRUE]

LPBoost_tolerance(b, tolerance) == [b EXCEPT !.tolerance = tolerance]

LPBoost_init_solver(b) ==
    [b EXCEPT !.lp_model = LPModel_init(RDiv(ROne, b.nu)), !.has_lp_model = TRUE]

LPBoost_preprocess(b) ==
    [LPBoost_init_solver(b) EXCEPT !.n_sample = NumRows,
                                   !.dist = UniformDist,
                                   !.gamma_hat = ROne,
                                   !.classifiers = <<>>,
                                   !.terminated = UsizeMax]

\* A faulty boost: a round that continues keeps the old distribution
LPBoost_boost_KeepsDist(b, h, iter, target, sol) ==
    LET yh == Margins(h, target)
        gamma_hat == RMin(Edge(yh, b.dist), b.gamma_hat)
        lp == LPModel_update(b.lp_model, yh, sol)
        b1 == [b EXCEPT !.gamma_hat = gamma_hat,
                        !.lp_model = lp,
                        !.classifiers = Append(@, h)]
    IN  IF ~LPModel_status_ok(lp.status)
        THEN [booster |-> [b EXCEPT !.gamma_hat = gamma_hat, !.lp_model = lp],
              flow |-> "none", called |-> TRUE, panic |-> TRUE]
        ELSE IF RLe(RSub(gamma_hat, b.tolerance), lp.gamma)
        THEN [booster |-> [b1 EXCEPT !.terminated = Len(b1.classifiers)],
              flow |-> "Terminate", called |-> TRUE, panic |-> FALSE]
        ELSE [booster |-> b1, flow |-> "Continue", called |-> TRUE, panic |-> FALSE]

\* boost never reads its iteration argument.  sol is the solver's answer to the
\* program with the constraint of h added.
LPBoost_boost(b, h, iter, target, sol) ==
    LET yh == Margins(h, target)
        ghat == Edge(yh, b.dist)
        gamma_hat == RMin(ghat, b.gamma_hat)
        lp == LPModel_update(b.lp_model, yh, sol)
        gamma_star == lp.gamma
        b1 == [b EXCEPT !.gamma_hat = gamma_hat,
                        !.lp_model = lp,
                        !.classifiers = Append(@, h)]
    IN  IF ~LPModel_status_ok(lp.status)
        THEN [booster |-> [b EXCEPT !.gamma_hat = gamma_hat, !.lp_model = lp],
              flow |-> "none", called |-> TRUE, panic |-> TRUE]
        ELSE IF RLe(RSub(gamma_hat, b.tolerance), gamma_star)
        THEN [booster |-> [b1 EXCEPT !.terminated = Len(b1.classifiers)],
              flow |-> "Terminate", called |-> TRUE, panic |-> FALSE]
        ELSE [booster |-> [b1 EXCEPT !.dist = LPModel_distribution(lp)],
              flow |-> "Continue", called |-> TRUE, panic |-> FALSE]

LPBoost_postprocess(b) ==
    LET weights == LPModel_weight(b.lp_model)
    IN  [booster |-> b,
         f |-> CombinedHypothesis_from(
                   ZipNonZero([j \in DOMAIN weights |-> WNum(weights[j])], b.classifiers, 1))]

-----------------------------------------------------------------------------
(* GBM with the L2 loss *)

\* The regressors a weak learner can return: the value each one predicts for
\* every row.  The regressor that is 0 on every row is left out: the closed form
\* of its coefficient is 0.0 / 0.0.
Regressors == {q \in [Rows -> {-1, 0, 1}] : \E i \in Rows : q[i] # 0}

RECURSIVE RSumTo(_, _)
RSumTo(f, n) == IF n = 0 THEN RZero ELSE RAdd(RSumTo(f, n - 1), f[n])

RMul(a, b) == Rat(a[1] * b[1], a[2] * b[2])

\* GBMLoss::L2.best_coefficient(target, predictions): the alpha that minimises
\* sum_i (target[i] - alpha * predictions[i])^2
GBMLoss_best_coefficient(target, predictions) ==
    RDiv(RSumTo([i \in Rows |-> RMul(target[i], RInt(predictions[i]))], NumRows),
         RInt(SumTo([i \in Rows |-> predictions[i] * predictions[i]], NumRows)))

GBM_init ==
    [alg |-> "GBM",
     tolerance |-> RZero,
     weights |-> <<>>,
     hypotheses |-> <<>>,
     loss |-> "L2",
     max_iter |-> 100,
     terminated |-> UsizeMax,
     predictions |-> [i \in Rows |-> RZero]]

GBM_preprocess(b) ==
    [b EXCEPT !.weights = <<>>,
              !.hypotheses = <<>>,
              !.terminated = b.max_iter,
              !.predictions = [i \in Rows |-> RZero]]

\* A faulty boost: a hypothesis with the coefficient 0 is appended before the round breaks
GBM_boost_StalePredictions(b, h, iter, target) ==
    IF b.max_iter < iter
    THEN [booster |-> b, flow |-> "Break", value |-> b.max_iter, called |-> FALSE]
    ELSE
    LET predictions == h
        coef == GBMLoss_best_coefficient([i \in Rows |-> RInt(target[i])], predictions)
    IN  IF coef = RZero
        THEN [booster |-> [b EXCEPT !.terminated = iter],
              flow |-> "Break", value |-> iter, called |-> TRUE]
        ELSE [booster |-> [b EXCEPT !.weights = Append(@, coef),
                                    !.hypotheses = Append(@, h)],
              flow |-> "Continue", value |-> 0, called |-> TRUE]

GBM_boost_AppendsZero(b, h, iter, target) ==
    IF b.max_iter < iter
    THEN [booster |-> b, flow |-> "Break", value |-> b.max_iter, called |-> FALSE]
    ELSE
    LET predictions == h
        coef == GBMLoss_best_coefficient([i \in Rows |-> RInt(target[i])], predictions)
        b1 == [b EXCEPT !.weights = Append(@, coef),
                        !.hypotheses = Append(@, h),
                        !.predictions = [i \in Rows |->
                                            RAdd(@[i], RMul(coef, RInt(predictions[i])))]]
    IN  IF coef = RZero
        THEN [booster |-> [b1 EXCEPT !.terminated = iter],
              flow |-> "Break", value |-> iter, called |-> TRUE]
        ELSE [booster |-> b1, flow |-> "Continue", value |-> 0, called |-> TRUE]

GBM_boost(b, h, iter, target) ==
    IF b.max_iter < iter
    THEN [booster |-> b, flow |-> "Break", value |-> b.max_iter, called |-> FALSE]
    ELSE
    LET predictions == h
        coef == GBMLoss_best_coefficient([i \in Rows |-> RInt(target[i])], predictions)
    IN  IF coef = RZero
        THEN [booster |-> [b EXCEPT !.terminated = iter],
              flow |-> "Break", value |-> iter, called |-> TRUE]
        ELSE [booster |-> [b EXCEPT !.weights = Append(@, coef),
                                    !.hypotheses = Append(@, h),
                                    !.predictions = [i \in Rows |->
                                        RAdd(@[i], RMul(coef, RInt(predictions[i])))]],
              flow |-> "Continue", value |-> 0, called |-> TRUE]

\* CombinedHypothesis::from_slices(weights, hypotheses)
GBM_postprocess(b) ==
    [booster |-> b,
     f |-> CombinedHypothesis_from([k \in DOMAIN b.weights |->
                                       [w |-> WNum(b.weights[k]), h |-> b.hypotheses[k]]])]

\* Regressor::predict of a CombinedHypothesis: sum_j w_j * h_j.predict(row) + constant
CombinedHypothesis_Regressor_predict(f, row) ==
    RAdd(RSumTo([j \in DOMAIN f.inner |->
                    RMul(f.inner[j].w.v, RInt(f.inner[j].h[row]))], Len(f.inner)),
         f.constant)

-----------------------------------------------------------------------------
(* SmoothBoost; its parameters and the vectors m and n are fixed-point reals *)

\* f64::exp for any argument
FpExpAny(x) == IF x <= 0 THEN FpExp(x) ELSE FpDiv(FpOne, FpExp(-x))

\* f64::powf(base, x) for base > 0
FpPowf(base, x) == FpExpAny(FpMul(x, FpLn(base)))

\* f64::sqrt(x) for x > 0
FpSqrt(x) == FpExpAny(DivRound(FpLn(x), 2))

SmoothBoost_init ==
    [alg |-> "SmoothBoost",
     kappa |-> FpOne \div 2,
     theta |-> FpDiv(FpOne \div 2, 2 * FpOne + FpOne \div 2),
     gamma |-> FpOne \div 2,
     n_sample |-> NumRows,
     current |-> 0,
     terminated |-> UsizeMax,
     max_iter |-> UsizeMax,
     classifiers |-> <<>>,
     m |-> <<>>,
     n |-> <<>>]

SmoothBoost_tolerance(b, kappa) == [b EXCEPT !.kappa = kappa]

SmoothBoost_gamma(b, gamma) == [b EXCEPT !.gamma = gamma]

SmoothBoost_theta(b) == [b EXCEPT !.theta = FpDiv(b.gamma, 2 * FpOne + b.gamma)]

\* ceil(2 / (kappa * gamma^2 * sqrt(1 - gamma))) as usize
SmoothBoost_max_loop(b) ==
    LET denom == FpMul(FpMul(b.kappa, FpMul(b.gamma, b.gamma)), FpSqrt(FpOne - b.gamma))
    IN  IF denom = 0 THEN UsizeMax ELSE CeilDiv(2 * FpOne, denom)

\* TRUE when check_preconditions returns, FALSE when it panics
SmoothBoost_check_preconditions(b) ==
    /\ ~(~(0 <= b.kappa /\ b.kappa < FpOne) \/ b.kappa <= 0)
    /\ b.theta <= b.gamma /\ b.gamma < FpOne \div 2

SmoothBoost_preprocess(b) ==
    LET b1 == SmoothBoost_theta([b EXCEPT !.n_sample = NumRows])
    IN  IF ~SmoothBoost_check_preconditions(b1)
        THEN [booster |-> b1, panic |-> TRUE]
        ELSE [booster |-> [b1 EXCEPT !.current = 0,
                                     !.max_iter = SmoothBoost_max_loop(b1),
                                     !.terminated = SmoothBoost_max_loop(b1),
                                     !.classifiers = <<>>,
                                     !.m = [i \in Rows |-> FpOne],
                                     !.n = [i \in Rows |-> FpOne]],
              panic |-> FALSE]

SmoothBoost_boost(b, h, iter, target) ==
    IF b.max_iter < iter
    THEN [booster |-> b, flow |-> "Terminate", called |-> FALSE]
    ELSE
    LET sum == SumTo(b.m, NumRows)
        margins == Margins(h, target)
        n == [i \in Rows |-> b.n[i] + margins[i] * FpOne - b.theta]
        m == [i \in Rows |-> IF n[i] <= 0 THEN FpOne
                              ELSE FpPowf(FpOne - b.gamma, DivRound(n[i], 2))]
    IN  IF sum < b.n_sample * b.kappa
        THEN [booster |-> [b EXCEPT !.current = iter, !.terminated = iter - 1],
              flow |-> "Terminate", called |-> FALSE]
        ELSE [booster |-> [b EXCEPT !.current = iter,
                                    !.classifiers = Append(@, h),
                                    !.n = n,
                                    !.m = m],
              flow |-> "Continue", called |-> TRUE]

\* the distribution boost hands to the weak learner
SmoothBoost_dist(b) == [i \in Rows |-> Rat(b.m[i], SumTo(b.m, NumRows))]

\* A faulty postprocess: the weight is 1 / max_iter
SmoothBoost_postprocess_MaxIter(b) ==
    LET weight == IF b.max_iter = 0 THEN WPosInf ELSE WNum(Rat(1, b.max_iter))
    IN  [booster |-> b,
         f |-> CombinedHypothesis_from([k \in DOMAIN b.classifiers |->
                                           [w |-> weight, h |-> b.classifiers[k]]])]

SmoothBoost_postprocess(b) ==
    LET weight == IF b.terminated = 0 THEN WPosInf ELSE WNum(Rat(1, b.terminated))
    IN  [booster |-> b,
         f |-> CombinedHypothesis_from([k \in DOMAIN b.classifiers |->
                                           [w |-> weight, h |-> b.classifiers[k]]])]

-----------------------------------------------------------------------------
(* MLPBoost *)

\* a rational as a fixed-point number
FpOfRat(r) == DivRound(r[1] * FpOne, r[2])

MLPBoost_init ==
    [alg |-> "MLPBoost",
     tolerance |-> FpUni,
     n_sample |-> NumRows,
     nu |-> FpOne,
     eta |-> FpDiv(2 * FpLn(NumRows * FpOne), FpUni),
     lp_model |-> LPModel_init(ROne),
     has_lp_model |-> FALSE,
     weights |-> <<>>,
     classifiers |-> <<>>,
     terminated |-> UsizeMax,
     max_iter |-> UsizeMax,
     gamma |-> FpOne]

\* tolerance(tolerance) stores tolerance / 2.0
MLPBoost_tolerance(b, tolerance) == [b EXCEPT !.tolerance = DivRound(tolerance, 2)]

\* assert!((0.0..0.5).contains(&self.tolerance)) of init_params
MLPBoost_tolerance_ok(b) == 0 <= b.tolerance /\ b.tolerance < FpOne \div 2

\* eta(): self.eta = (n_sample / nu).ln() / self.tolerance
MLPBoost_eta(b) ==
    [b EXCEPT !.eta = FpDiv(FpLn(FpDiv(b.n_sample * FpOne, b.nu)), b.tolerance)]

\* init_solver(): a new LP model with the upper bound 1 / nu
MLPBoost_init_solver(b) ==
    [b EXCEPT !.lp_model = LPModel_init(Rat(FpOne, b.nu)), !.has_lp_model = TRUE]

\* (8.0 * (n_sample / nu).ln() / tolerance.powi(2)).ceil() as usize
MLPBoost_max_loop(b) ==
    CeilDiv(8 * FpLn(FpDiv(b.n_sample * FpOne, b.nu)) * FpOne, b.tolerance * b.tolerance)

MLPBoost_preprocess(b) ==
    LET b1 == MLPBoost_init_solver(MLPBoost_eta([b EXCEPT !.n_sample = NumRows]))
        max_iter == MLPBoost_max_loop(b1)
    IN  [b1 EXCEPT !.max_iter = max_iter,
                   !.terminated = max_iter,
                   !.classifiers = <<>>,
                   !.weights = <<>>,
                   !.gamma = FpOne]

\* the (h, w) pairs of two lists of the same length
MlpPairs(classifiers, weights) ==
    [k \in DOMAIN classifiers |-> [h |-> classifiers[k], w |-> weights[k]]]

\* dist_at(eta, nu, .., classifiers, weights): the distribution proportional to
\* exp(-eta * margin_i) of the weighted vote, capped at 1 / nu
MLPBoost_dist_at(eta, nu, target, classifiers, weights) ==
    CERLPBoost_update_distribution_mut(
        [eta |-> eta, nu |-> nu, dist |-> [i \in Rows |-> FpUni],
         classifiers |-> MlpPairs(classifiers, weights)], target).dist

\* edge_of(.., dist, classifiers, weights) = sum_i d_i * y_i * sum_j w_j * h_j(i)
MLPBoost_edge_of(target, dist, classifiers, weights) ==
    DivRound(SumTo([i \in Rows |->
                       dist[i] * target[i]
                           * CERLPBoost_prediction(i, MlpPairs(classifiers, weights))],
                   NumRows), FpOne)

\* objval(.., weights) = margin + (entropy + ln(n_sample)) / eta, with the
\* distribution at these weights
MLPBoost_objval(b, target, weights) ==
    LET dist == MLPBoost_dist_at(b.eta, b.nu, target, b.classifiers, weights)
        margin == MLPBoost_edge_of(target, dist, b.classifiers, weights)
        entropy == SumTo([i \in Rows |->
                             IF dist[i] = 0 THEN 0 ELSE FpMul(dist[i], FpLn(dist[i]))],
                         NumRows)
    IN  margin + FpDiv(entropy + FpLn(b.n_sample * FpOne), b.eta)

\* Primary::ShortStep: the Frank-Wolfe step from weights towards the unit vector
\* of pos, of the length clip(<d, gap> / (eta * |gap|_inf^2), 0, 1)
MLPBoost_primary_update(eta, target, dist, pos, classifiers, weights) ==
    LET pairs == MlpPairs(classifiers, weights)
        gap_vec == [i \in Rows |->
                       target[i] * (classifiers[pos][i] * FpOne
                                        - CERLPBoost_prediction(i, pairs))]
        lambda == CERLPBoost_weight([eta |-> eta], gap_vec, dist)
    IN  [k \in DOMAIN weights |->
            FpMul(weights[k], FpOne - lambda) + (IF k = pos THEN lambda ELSE 0)]

\* secondary_update(.., opt_h) with Secondary::LPB: LPModel::update, which adds
\* the constraint of a new hypothesis and takes the solver's answer sol, and
\* returns the absolute values of the attribute Pi in either case
MLPBoost_secondary_update(b, target, opt_h, sol) ==
    IF opt_h = <<>> THEN b.lp_model
    ELSE LPModel_update(b.lp_model, Margins(opt_h[1], target), sol)

\* better_weight with StopCondition::ObjVal
MLPBoost_better_weight(b, target, prim, seco) ==
    LET prim_val == MLPBoost_objval(b, target, prim)
        seco_val == MLPBoost_objval(b, target, seco)
    IN  [b EXCEPT !.weights = IF prim_val >= seco_val THEN prim ELSE seco]

\* the first index of a stored classifier equal to h, or the length of the list
\* (counted from 1 here, so the length plus one)
MLPBoost_position(classifiers, h) ==
    IF \E k \in DOMAIN classifiers : classifiers[k] = h
    THEN SetMin({k \in DOMAIN classifiers : classifiers[k] = h})
    ELSE Len(classifiers) + 1

\* A faulty boost: every hypothesis is appended, also one that is stored already
MLPBoost_boost_AlwaysAppends(b, h, iter, target, sol) ==
    IF b.max_iter < iter
    THEN [booster |-> b, flow |-> "Terminate", called |-> FALSE, panic |-> FALSE,
          dist |-> <<>>]
    ELSE
    LET dist == MLPBoost_dist_at(b.eta, b.nu, target, b.classifiers, b.weights)
        edge_h == FpEdge(h, target, dist)
        b1 == [b EXCEPT !.gamma = IF edge_h < @ THEN edge_h ELSE @]
    IN  IF iter = 1
        THEN LET b2 == [b1 EXCEPT !.classifiers = Append(@, h),
                                  !.weights = Append(@, FpOne)]
                 lp == MLPBoost_secondary_update(b2, target, <<h>>, sol)
             IN  [booster |-> [b2 EXCEPT !.lp_model = lp], flow |-> "Continue",
                  called |-> TRUE, panic |-> ~LPModel_status_ok(lp.status),
                  dist |-> dist]
        ELSE IF b1.gamma - MLPBoost_objval(b1, target, b1.weights) <= b1.tolerance
        THEN [booster |-> [b1 EXCEPT !.terminated = iter], flow |-> "Terminate",
              called |-> TRUE, panic |-> FALSE, dist |-> dist]
        ELSE
        LET pos == Len(b1.classifiers) + 1
            b2 == [b1 EXCEPT !.classifiers = Append(@, h), !.weights = Append(@, 0)]
            opt_h == <<h>>
            prim == MLPBoost_primary_update(b2.eta, target, dist, pos,
                                            b2.classifiers, b2.weights)
            lp == MLPBoost_secondary_update(b2, target, opt_h, sol)
            b3 == [b2 EXCEPT !.lp_model = lp]
        IN  IF ~LPModel_status_ok(lp.status)
            THEN [booster |-> b3, flow |-> "none", called |-> TRUE, panic |-> TRUE, dist |-> dist]
            ELSE [booster |-> MLPBoost_better_weight(
                                  b3, target, prim,
                                  [k \in DOMAIN lp.constrs |-> FpOfRat(LPModel_weight(lp)[k])]),
                  flow |-> "Continue", called |-> TRUE, panic |-> FALSE, dist |-> dist]

\* sol is the solver's answer to the program with the constraint of h added; it
\* is read only in a round that adds a constraint
MLPBoost_boost(b, h, iter, target, sol) ==
    IF b.max_iter < iter
    THEN [booster |-> b, flow |-> "Terminate", called |-> FALSE, panic |-> FALSE,
          dist |-> <<>>]
    ELSE
    LET dist == MLPBoost_dist_at(b.eta, b.nu, target, b.classifiers, b.weights)
        edge_h == FpEdge(h, target, dist)
        b1 == [b EXCEPT !.gamma = IF edge_h < @ THEN edge_h ELSE @]
    IN  IF iter = 1
        THEN LET b2 == [b1 EXCEPT !.classifiers = Append(@, h),
                                  !.weights = Append(@, FpOne)]
                 lp == MLPBoost_secondary_update(b2, target, <<h>>, sol)
             IN  [booster |-> [b2 EXCEPT !.lp_model = lp], flow |-> "Continue",
                  called |-> TRUE, panic |-> ~LPModel_status_ok(lp.status),
                  dist |-> dist]
        ELSE IF b1.gamma - MLPBoost_objval(b1, target, b1.weights) <= b1.tolerance
        THEN [booster |-> [b1 EXCEPT !.terminated = iter], flow |-> "Terminate",
              called |-> TRUE, panic |-> FALSE, dist |-> dist]
        ELSE
        LET pos == MLPBoost_position(b1.classifiers, h)
            is_new == pos = Len(b1.classifiers) + 1
            b2 == IF is_new
                  THEN [b1 EXCEPT !.classifiers = Append(@, h), !.weights = Append(@, 0)]
                  ELSE b1
            opt_h == IF is_new THEN <<h>> ELSE <<>>
            prim == MLPBoost_primary_update(b2.eta, target, dist, pos,
                                            b2.classifiers, b2.weights)
            lp == MLPBoost_secondary_update(b2, target, opt_h, sol)
            b3 == [b2 EXCEPT !.lp_model = lp]
        IN  IF ~LPModel_status_ok(lp.status)
            THEN [booster |-> b3, flow |-> "none", called |-> TRUE, panic |-> TRUE, dist |-> dist]
            ELSE [booster |-> MLPBoost_better_weight(
                                  b3, target, prim,
                                  [k \in DOMAIN lp.constrs |-> FpOfRat(LPModel_weight(lp)[k])]),
                  flow |-> "Continue", called |-> TRUE, panic |-> FALSE, dist |-> dist]

\* the (weight, classifier) pairs with weight > 0.0, in the order of the list
RECURSIVE MLPBoost_positive(_, _, _)
MLPBoost_positive(weights, classifiers, k) ==
    IF k > Len(weights) \/ k > Len(classifiers) THEN <<>>
    ELSE (IF weights[k] > 0 THEN <<[w |-> weights[k], h |-> classifiers[k]]>> ELSE <<>>)
             \o MLPBoost_positive(weights, classifiers, k + 1)

MLPBoost_postprocess(b) ==
    [booster |-> b, f |-> CombinedHypothesis_from(MLPBoost_positive(b.weights, b.classifiers, 1))]

-----------------------------------------------------------------------------
(* SoftBoost and the quadratic program of its inner loop *)

\* dist[i] is followed on the grid k / SoftDen, as the integer k
SoftDen == 4 * NumRows

SoftHasZero(dist) == \E i \in Rows : dist[i] = 0

\* d + delta for the values delta of the variables: within the bounds
\* -d <= delta <= 1/nu - d, with zero_sum, and with the constraint of every
\* stored classifier, sum_i y_i h(i) (d_i + delta_i) <= gamma_hat - tolerance
SoftQP_feasible(b, target) ==
    {p \in [Rows -> 0..SoftDen] :
        /\ SumTo(p, NumRows) = SoftDen
        /\ \A i \in Rows : RLe(Rat(p[i], SoftDen), RDiv(ROne, b.nu))
        /\ \A j \in DOMAIN b.classifiers :
              RLe(Rat(LpEdge(Margins(b.classifiers[j], target), p), SoftDen),
                  RSub(b.gamma_hat, b.tolerance))}

\* the objective sum_i (ln(m d_i) + 1) delta_i + delta_i^2 / (2 d_i) at d + delta = p,
\* in fixed point, for a dist without a zero entry
SoftQP_objective(dist, p) ==
    SumTo([i \in Rows |->
             DivRound((FpLn(DivRound(NumRows * dist[i] * FpOne, SoftDen)) + FpOne)
                         * (p[i] - dist[i]), SoftDen)
             + DivRound((p[i] - dist[i]) * (p[i] - dist[i]) * FpOne, 2 * dist[i] * SoftDen)],
          NumRows)

\* What model.optimize() can leave behind.  For a dist without a zero entry: the
\* status Optimal with a minimiser of the objective, Infeasible or InfOrUnbd when
\* nothing is feasible, or a status that tells of trouble.  For a dist with a zero
\* entry the coefficients ln(0) + 1 and 1 / 0 are not finite: the solver rejects
\* the objective, or answers with any status and any values within the bounds.
SoftQP_optimize(b, target) ==
    LET feasible == {p : p \in SoftQP_feasible(b, target)}
    IN  IF SoftHasZero(b.dist)
        THEN {[status |-> "Error", x |-> b.dist]}
                \cup {[status |-> st, x |-> b.dist] : st \in SolverStatuses \ {"Optimal"}}
                \cup {[status |-> "Optimal", x |-> p] : p \in feasible}
        ELSE IF feasible = {}
        THEN {[status |-> st, x |-> b.dist] : st \in {"Infeasible", "InfOrUnbd", "Numeric"}}
        ELSE LET best == SetMin({SoftQP_objective(b.dist, p) : p \in feasible})
             IN  {[status |-> "Optimal", x |-> p] :
                     p \in {q \in feasible : SoftQP_objective(b.dist, q) = best}}
                    \cup {[status |-> st, x |-> b.dist] : st \in {"SubOptimal", "Numeric"}}

SoftBoost_init ==
    [alg |-> "SoftBoost",
     dist |-> [i \in Rows |-> SoftDen \div NumRows],
     gamma_hat |-> ROne,
     tolerance |-> Rat(1, NumRows),
     sub_tolerance |-> Rat(1, 1000000),
     nu |-> ROne,
     classifiers |-> <<>>,
     weights |-> <<>>,
     max_iter |-> UsizeMax,
     terminated |-> UsizeMax]

\* assert!(1.0 <= nu && nu <= self.dist.len() as f64)
SoftBoost_nu_ok(b, nu) == RLe(ROne, nu) /\ RLe(nu, RInt(NumRows))

SoftBoost_nu(b, nu) == [b EXCEPT !.nu = nu]

SoftBoost_tolerance(b, tolerance) == [b EXCEPT !.tolerance = tolerance]

\* (2.0 * (m / self.nu).ln() / self.tolerance.powi(2)).ceil() as usize
SoftBoost_max_loop(b) ==
    LET tol == DivRound(b.tolerance[1] * FpOne, b.tolerance[2])
        ln_part == FpLn(DivRound(NumRows * FpOne * b.nu[2], b.nu[1]))
    IN  IF tol = 0 THEN UsizeMax ELSE CeilDiv(2 * ln_part * FpOne, tol * tol)

SoftBoost_preprocess(b) ==
    LET max_iter == SoftBoost_max_loop(b)
    IN  [b EXCEPT !.dist = [i \in Rows |-> SoftDen \div NumRows],
                  !.sub_tolerance = RDiv(b.tolerance, RInt(10)),
                  !.max_iter = max_iter,
                  !.terminated = max_iter,
                  !.classifiers = <<>>,
                  !.gamma_hat = ROne]

\* The inner programs a call of update_params_mut is followed for
SoftInner == 3

\* l2 < self.sub_tolerance for the step from dist to p
SoftBoost_small_step(b, p) ==
    LET sq == SumTo([i \in Rows |-> (p[i] - b.dist[i]) * (p[i] - b.dist[i])], NumRows)
    IN  RLt(Rat(sq, SoftDen * SoftDen), RMul(b.sub_tolerance, b.sub_tolerance))

\* the end of update_params_mut, after the loop
SoftBoost_after_loop(b) == IF SoftHasZero(b.dist) THEN "None" ELSE "Some"

\* update_params_mut: every way the loop can run with at most `fuel` programs.
\* programs counts the programs built, zero_programs those built around a dist
\* with a zero entry.
RECURSIVE SoftBoost_update_params_mut(_, _, _, _, _)
SoftBoost_update_params_mut(b, target, fuel, programs, zero_programs) ==
    IF fuel = 0 THEN {}
    ELSE UNION {
        LET n == programs + 1
            z == zero_programs + (IF SoftHasZero(b.dist) THEN 1 ELSE 0)
            out(bb, res, inf) == [booster |-> bb, result |-> res, infeasible |-> inf,
                                  programs |-> n, zero_programs |-> z]
        IN  IF a.status = "Error" THEN {out(b, "panic", FALSE)}
            ELSE IF a.status \in {"Infeasible", "InfOrUnbd"} THEN {out(b, "None", TRUE)}
            ELSE IF a.status # "Optimal" THEN {out(b, "panic", FALSE)}
            ELSE LET b1 == [b EXCEPT !.dist = a.x]
                 IN  IF SoftBoost_small_step(b, a.x)
                     THEN {out(b1, SoftBoost_after_loop(b1), FALSE)}
                     ELSE SoftBoost_update_params_mut(b1, target, fuel - 1, n, z)
        : a \in SoftQP_optimize(b, target)}

\* boost: every way the call can end
SoftBoost_boost(b, h, iter, target) ==
    IF b.max_iter < iter
    THEN {[booster |-> b, flow |-> "Terminate", called |-> FALSE, panic |-> FALSE,
           infeasible |-> FALSE, programs |-> 0, zero_programs |-> 0]}
    ELSE
    LET edge == Rat(LpEdge(Margins(h, target), b.dist), SoftDen)
        b1 == [b EXCEPT !.gamma_hat = IF RLt(edge, @) THEN edge ELSE @,
                        !.classifiers = Append(@, h)]
    IN  {[booster |-> IF o.result = "None" THEN [o.booster EXCEPT !.terminated = iter]
                      ELSE o.booster,
          flow |-> IF o.result = "Some" THEN "Continue"
                   ELSE IF o.result = "None" THEN "Terminate" ELSE "none",
          called |-> TRUE, panic |-> o.result = "panic",
          infeasible |-> o.infeasible,
          programs |-> o.programs, zero_programs |-> o.zero_programs] :
            o \in SoftBoost_update_params_mut(b1, target, SoftInner, 0, 0)}

-----------------------------------------------------------------------------
(* The driver and the actions *)

NoDist == <<>>
NoHypothesis == <<>>
NoOutput == [kind |-> "none"]
NoReturn == [flow |-> "none", value |-> 0]

InitGraphSep ==
    /\ sample \in Targets
    /\ booster = GraphSepBoost_init
    /\ pc = "init"
    /\ iteration = 0
    /\ ret = NoReturn
    /\ wl_calls = 0
    /\ given = NoDist
    /\ produced = NoHypothesis
    /\ output = NoOutput

\* booster.preprocess(&weak_learner): starts a run
GsbPreprocess ==
    /\ booster.alg = "GraphSepBoost"
    /\ pc \in {"init", "stopped", "post"}
    /\ booster' = GraphSepBoost_preprocess(booster, sample)
    /\ pc' = "running"
    /\ iteration' = 0
    /\ ret' = NoReturn
    /\ wl_calls' = 0
    /\ given' = NoDist
    /\ produced' = NoHypothesis
    /\ output' = NoOutput
    /\ UNCHANGED sample

\* booster.boost(&weak_learner, iter), the next call of the driver loop
GsbBoost ==
    /\ booster.alg = "GraphSepBoost"
    /\ pc = "running"
    /\ iteration < MaxRounds
    /\ \E h \in Hypotheses :
          LET r == GraphSepBoost_boost(booster, h, iteration + 1)
          IN  /\ booster' = r.booster
              /\ ret' = [flow |-> r.flow, value |-> r.value]
              /\ pc' = IF r.flow = "Continue" THEN "running" ELSE "stopped"
              /\ wl_calls' = IF r.called THEN wl_calls + 1 ELSE wl_calls
              /\ given' = IF r.called THEN r.dist ELSE given
              /\ produced' = IF r.called THEN h ELSE produced
    /\ iteration' = iteration + 1
    /\ UNCHANGED <<sample, output>>

\* booster.postprocess(&weak_learner)
GsbPostprocess ==
    /\ booster.alg = "GraphSepBoost"
    /\ pc \in {"running", "stopped", "post"}
    /\ LET r == GraphSepBoost_postprocess(booster)
       IN  /\ booster' = r.booster
           /\ output' = r.f
    /\ pc' = "post"
    /\ UNCHANGED <<sample, iteration, ret, wl_calls, given, produced>>

NextGraphSep == GsbPreprocess \/ GsbBoost \/ GsbPostprocess

SpecGraphSep == InitGraphSep /\ [][NextGraphSep]_vars

\* The runs of AdaBoost, AdaBoostV and CERLPBoost are followed for this many boost calls
AdaRounds == MaxRounds - 1

\* and while the entries of dist are fractions over a denominator of this size
DenCap == 1000
DistFits(dist) == IF HasNaN(dist) THEN TRUE ELSE CommonDen(dist, NumRows) <= DenCap

\* The sample of the runs of AdaBoost and AdaBoostV: labels alternate from +1.
\* The margins y_i * h(x_i) range over every sign vector whatever the labels are.
AdaTarget == [i \in Rows |-> IF i % 2 = 1 THEN 1 ELSE -1]

\* The values given to tolerance(): any f64 is accepted.  With 1 the bound
\* max_loop() is small enough for a run to meet it.
AdaTolerances == {Rat(1, NumRows + 1), ROne}

InitAdaBoost ==
    /\ sample = AdaTarget
    /\ booster \in {AdaBoost_init} \cup {AdaBoost_tolerance(AdaBoost_init, t) : t \in AdaTolerances}
    /\ pc = "init"
    /\ iteration = 0
    /\ ret = NoReturn
    /\ wl_calls = 0
    /\ given = NoDist
    /\ produced = NoHypothesis
    /\ output = NoOutput

AdaPreprocess ==
    /\ booster.alg = "AdaBoost"
    /\ pc \in {"init", "stopped", "post"}
    /\ booster' = AdaBoost_preprocess(booster)
    /\ pc' = "running"
    /\ iteration' = 0
    /\ ret' = NoReturn
    /\ wl_calls' = 0
    /\ given' = NoDist
    /\ produced' = NoHypothesis
    /\ output' = NoOutput
    /\ UNCHANGED sample

AdaBoost ==
    /\ booster.alg = "AdaBoost"
    /\ pc = "running"
    /\ iteration < AdaRounds
    /\ DistFits(booster.dist)
    /\ \E h \in Hypotheses :
          LET r == AdaBoost_boost(booster, h, iteration + 1, sample)
          IN  /\ booster' = r.booster
              /\ ret' = [flow |-> r.flow, value |-> 0]
              /\ pc' = IF r.flow = "Continue" THEN "running" ELSE "stopped"
              /\ wl_calls' = IF r.called THEN wl_calls + 1 ELSE wl_calls
              /\ given' = IF r.called THEN booster.dist ELSE given
              /\ produced' = IF r.called THEN h ELSE produced
    /\ iteration' = iteration + 1
    /\ UNCHANGED <<sample, output>>

AdaPostprocess ==
    /\ booster.alg = "AdaBoost"
    /\ pc \in {"running", "stopped", "post"}
    /\ LET r == AdaBoost_postprocess(booster)
       IN  /\ booster' = r.booster
           /\ output' = r.f
    /\ pc' = "post"
    /\ UNCHANGED <<sample, iteration, ret, wl_calls, given, produced>>

NextAdaBoost == AdaPreprocess \/ AdaBoost \/ AdaPostprocess

SpecAdaBoost == InitAdaBoost /\ [][NextAdaBoost]_vars

AdaVTolerances == {Rat(1, NumRows), ROne}

InitAdaBoostV ==
    /\ sample = AdaTarget
    /\ booster \in {AdaBoostV_init} \cup {AdaBoostV_tolerance(AdaBoostV_init, t) : t \in AdaVTolerances}
    /\ pc = "init"
    /\ iteration = 0
    /\ ret = NoReturn
    /\ wl_calls = 0
    /\ given = NoDist
    /\ produced = NoHypothesis
    /\ output = NoOutput

AdaVPreprocess ==
    /\ booster.alg = "AdaBoostV"
    /\ pc \in {"init", "stopped", "post"}
    /\ booster' = AdaBoostV_preprocess(booster)
    /\ pc' = "running"
    /\ iteration' = 0
    /\ ret' = NoReturn
    /\ wl_calls' = 0
    /\ given' = NoDist
    /\ produced' = NoHypothesis
    /\ output' = NoOutput
    /\ UNCHANGED sample

\* a panic inside boost ends the program
AdaVBoost ==
    /\ booster.alg = "AdaBoostV"
    /\ pc = "running"
    /\ iteration < AdaRounds
    /\ DistFits(booster.dist)
    /\ \E h \in Hypotheses :
          LET r == AdaBoostV_boost(booster, h, iteration + 1, sample)
          IN  /\ booster' = r.booster
              /\ ret' = IF r.panic THEN NoReturn ELSE [flow |-> r.flow, value |-> 0]
              /\ pc' = IF r.panic THEN "panicked"
                       ELSE IF r.flow = "Continue" THEN "running" ELSE "stopped"
              /\ wl_calls' = IF r.called THEN wl_calls + 1 ELSE wl_calls
              /\ given' = IF r.called THEN booster.dist ELSE given
              /\ produced' = IF r.called THEN h ELSE produced
    /\ iteration' = iteration + 1
    /\ UNCHANGED <<sample, output>>

AdaVPostprocess ==
    /\ booster.alg = "AdaBoostV"
    /\ pc \in {"running", "stopped", "post"}
    /\ LET r == AdaBoostV_postprocess(booster)
       IN  /\ booster' = r.booster
           /\ output' = r.f
    /\ pc' = "post"
    /\ UNCHANGED <<sample, iteration, ret, wl_calls, given, produced>>

NextAdaBoostV == AdaVPreprocess \/ AdaVBoost \/ AdaVPostprocess

SpecAdaBoostV == InitAdaBoostV /\ [][NextAdaBoostV]_vars

\* The values given to tolerance() and nu() of CERLPBoost.  nu = m is the
\* largest value nu() accepts; with nu just below m the bound max_loop() is small.
CerlpTolerances == {(6 * FpOne) \div 10, (12 * FpOne) \div 10}
CerlpNus == {FpOne, NumRows * FpOne - FpOne \div 10, NumRows * FpOne}

InitCERLPBoost ==
    /\ sample = AdaTarget
    /\ booster \in {CERLPBoost_init}
            \cup {CERLPBoost_nu(CERLPBoost_init, n) : n \in CerlpNus}
            \cup {CERLPBoost_nu(CERLPBoost_tolerance(CERLPBoost_init, t), n) :
                     t \in CerlpTolerances, n \in CerlpNus}
    /\ pc = "init"
    /\ iteration = 0
    /\ ret = NoReturn
    /\ wl_calls = 0
    /\ given = NoDist
    /\ produced = NoHypothesis
    /\ output = NoOutput

\* preprocess panics on a tolerance outside [0, 1)
\* The values given to nu() once the booster is built: those of CerlpNus and two
\* outside [1, m]
CerlpNuArgs == CerlpNus \cup {FpOne \div 2, NumRows * FpOne + 1}

\* CERLPBoost::nu(nu)
CerlpNu ==
    /\ booster.alg = "CERLPBoost"
    /\ pc = "init"
    /\ \E nu \in CerlpNuArgs :
          IF CERLPBoost_nu_ok(booster, nu)
          THEN /\ booster' = CERLPBoost_nu(booster, nu)
               /\ pc' = "init"
          ELSE /\ booster' = booster
               /\ pc' = "panicked"
    /\ UNCHANGED <<sample, iteration, ret, wl_calls, given, produced, output>>

CerlpPreprocess ==
    /\ booster.alg = "CERLPBoost"
    /\ pc \in {"init", "stopped", "post"}
    /\ IF CERLPBoost_tolerance_ok(booster)
       THEN /\ booster' = CERLPBoost_preprocess(booster)
            /\ pc' = "running"
       ELSE /\ booster' = [booster EXCEPT !.dist = [i \in Rows |-> FpUni]]
            /\ pc' = "panicked"
    /\ iteration' = 0
    /\ ret' = NoReturn
    /\ wl_calls' = 0
    /\ given' = NoDist
    /\ produced' = NoHypothesis
    /\ output' = NoOutput
    /\ UNCHANGED sample

CerlpBoost ==
    /\ booster.alg = "CERLPBoost"
    /\ pc = "running"
    /\ iteration < AdaRounds
    /\ \E h \in Hypotheses :
          LET r == CERLPBoost_boost(booster, h, iteration + 1, sample)
          IN  /\ booster' = r.booster
              /\ ret' = [flow |-> r.flow, value |-> 0]
              /\ pc' = IF r.flow = "Continue" THEN "running" ELSE "stopped"
              /\ wl_calls' = IF r.called THEN wl_calls + 1 ELSE wl_calls
              /\ given' = IF r.called THEN r.dist ELSE given
              /\ produced' = IF r.called THEN h ELSE produced
    /\ iteration' = iteration + 1
    /\ UNCHANGED <<sample, output>>

\* postprocess panics when no classifier is stored
CerlpPostprocess ==
    /\ booster.alg = "CERLPBoost"
    /\ pc \in {"running", "stopped", "post"}
    /\ LET r == CERLPBoost_postprocess(booster, sample)
       IN  /\ booster' = r.booster
           /\ output' = IF r.panic THEN output ELSE r.f
           /\ pc' = IF r.panic THEN "panicked" ELSE "post"
    /\ UNCHANGED <<sample, iteration, ret, wl_calls, given, produced>>

NextCERLPBoost == CerlpNu \/ CerlpPreprocess \/ CerlpBoost \/ CerlpPostprocess

SpecCERLPBoost == InitCERLPBoost /\ [][NextCERLPBoost]_vars

\* The values given to LPBoost::nu(): two outside [1, n_sample] among them
LpbNus == {Rat(1, 2), ROne, Rat(3, 2), RInt(NumRows), RInt(NumRows + 1)}

\* The values given to LPBoost::tolerance(): any f64 is accepted
LpbTolerances == {RZero, Rat(1, 2)}

InitLPBoost ==
    /\ sample = AdaTarget
    /\ booster = LPBoost_init
    /\ pc = "init"
    /\ iteration = 0
    /\ ret = NoReturn
    /\ wl_calls = 0
    /\ given = NoDist
    /\ produced = NoHypothesis
    /\ output = NoOutput

\* LPBoost::init(..).nu(nu)
LpbNu ==
    /\ booster.alg = "LPBoost"
    /\ pc = "init"
    /\ \E nu \in LpbNus :
          LET r == LPBoost_nu(booster, nu)
          IN  /\ booster' = r.booster
              /\ pc' = IF r.panic THEN "panicked" ELSE "init"
    /\ UNCHANGED <<sample, iteration, ret, wl_calls, given, produced, output>>

\* LPBoost::init(..).tolerance(tolerance)
LpbTolerance ==
    /\ booster.alg = "LPBoost"
    /\ pc = "init"
    /\ \E t \in LpbTolerances : booster' = LPBoost_tolerance(booster, t)
    /\ UNCHANGED <<sample, pc, iteration, ret, wl_calls, given, produced, output>>

LpbPreprocess ==
    /\ booster.alg = "LPBoost"
    /\ pc \in {"init", "stopped", "post"}
    /\ booster' = LPBoost_preprocess(booster)
    /\ pc' = "running"
    /\ iteration' = 0
    /\ ret' = NoReturn
    /\ wl_calls' = 0
    /\ given' = NoDist
    /\ produced' = NoHypothesis
    /\ output' = NoOutput
    /\ UNCHANGED sample

\* One call of boost: the weak learner answers with any h, the solver with any
\* optimal solution on the grid or with another status.
LpbBoost ==
    /\ booster.alg = "LPBoost"
    /\ pc = "running"
    /\ iteration < AdaRounds
    /\ \E h \in Hypotheses :
          \E sol \in Solver_optimize(Append(booster.lp_model.constrs, Margins(h, sample)),
                                     booster.lp_model.upper_bound) :
              LET r == LPBoost_boost(booster, h, iteration + 1, sample, sol)
              IN  /\ booster' = r.booster
                  /\ ret' = [flow |-> r.flow, value |-> 0]
                  /\ pc' = IF r.panic THEN "panicked"
                           ELSE IF r.flow = "Continue" THEN "running" ELSE "stopped"
                  /\ wl_calls' = wl_calls + 1
                  /\ given' = booster.dist
                  /\ produced' = h
    /\ iteration' = iteration + 1
    /\ UNCHANGED <<sample, output>>

LpbPostprocess ==
    /\ booster.alg = "LPBoost"
    /\ pc \in {"running", "stopped", "post"}
    /\ LET r == LPBoost_postprocess(booster)
       IN  /\ booster' = r.booster
           /\ output' = r.f
    /\ pc' = "post"
    /\ UNCHANGED <<sample, iteration, ret, wl_calls, given, produced>>

NextLPBoost == LpbNu \/ LpbTolerance \/ LpbPreprocess \/ LpbBoost \/ LpbPostprocess

SpecLPBoost == InitLPBoost /\ [][NextLPBoost]_vars


\* The runs of GBM are followed for this many boost calls
GbmRounds == MaxRounds - 2

InitGBM ==
    /\ sample = AdaTarget
    /\ booster = GBM_init
    /\ pc = "init"
    /\ iteration = 0
    /\ ret = NoReturn
    /\ wl_calls = 0
    /\ given = NoDist
    /\ produced = NoHypothesis
    /\ output = NoOutput

GbmPreprocess ==
    /\ booster.alg = "GBM"
    /\ pc \in {"init", "stopped", "post"}
    /\ booster' = GBM_preprocess(booster)
    /\ pc' = "running"
    /\ iteration' = 0
    /\ ret' = NoReturn
    /\ wl_calls' = 0
    /\ given' = NoDist
    /\ produced' = NoHypothesis
    /\ output' = NoOutput
    /\ UNCHANGED sample

\* One call of boost: the weak learner is given the predictions and answers with any regressor
GbmBoost ==
    /\ booster.alg = "GBM"
    /\ pc = "running"
    /\ iteration < GbmRounds
    /\ \E h \in Regressors :
          LET r == GBM_boost(booster, h, iteration + 1, sample)
          IN  /\ booster' = r.booster
              /\ ret' = [flow |-> r.flow, value |-> r.value]
              /\ pc' = IF r.flow = "Continue" THEN "running" ELSE "stopped"
              /\ wl_calls' = IF r.called THEN wl_calls + 1 ELSE wl_calls
              /\ given' = IF r.called THEN booster.predictions ELSE given
              /\ produced' = IF r.called THEN h ELSE produced
    /\ iteration' = iteration + 1
    /\ UNCHANGED <<sample, output>>

GbmPostprocess ==
    /\ booster.alg = "GBM"
    /\ pc \in {"running", "stopped", "post"}
    /\ LET r == GBM_postprocess(booster)
       IN  /\ booster' = r.booster
           /\ output' = r.f
    /\ pc' = "post"
    /\ UNCHANGED <<sample, iteration, ret, wl_calls, given, produced>>

NextGBM == GbmPreprocess \/ GbmBoost \/ GbmPostprocess

SpecGBM == InitGBM /\ [][NextGBM]_vars


\* The runs of SmoothBoost are followed for this many boost calls
SmbRounds == 14
\* The values given to tolerance(kappa) and gamma(gamma)
SmbKappas == {0, FpOne \div 2, (9 * FpOne) \div 10, FpOne}
SmbGammas == {-FpOne, (49 * FpOne) \div 100, FpOne \div 2}
\* The classifiers the weak learner of SmoothBoost returns
SmbHypotheses == {[i \in Rows |-> -AdaTarget[i]], [i \in Rows |-> 1]}

InitSmoothBoost ==
    /\ sample = AdaTarget
    /\ booster = SmoothBoost_init
    /\ pc = "init"
    /\ iteration = 0
    /\ ret = NoReturn
    /\ wl_calls = 0
    /\ given = NoDist
    /\ produced = NoHypothesis
    /\ output = NoOutput

SmbTolerance ==
    /\ booster.alg = "SmoothBoost"
    /\ pc = "init"
    /\ \E kappa \in SmbKappas : booster' = SmoothBoost_tolerance(booster, kappa)
    /\ UNCHANGED <<sample, pc, iteration, ret, wl_calls, given, produced, output>>

SmbGamma ==
    /\ booster.alg = "SmoothBoost"
    /\ pc = "init"
    /\ \E gamma \in SmbGammas : booster' = SmoothBoost_gamma(booster, gamma)
    /\ UNCHANGED <<sample, pc, iteration, ret, wl_calls, given, produced, output>>

SmbPreprocess ==
    /\ booster.alg = "SmoothBoost"
    /\ pc \in {"init", "stopped", "post"}
    /\ LET r == SmoothBoost_preprocess(booster)
       IN  /\ booster' = r.booster
           /\ pc' = IF r.panic THEN "panicked" ELSE "running"
    /\ iteration' = 0
    /\ ret' = NoReturn
    /\ wl_calls' = 0
    /\ given' = NoDist
    /\ produced' = NoHypothesis
    /\ output' = NoOutput
    /\ UNCHANGED sample

SmbBoost ==
    /\ booster.alg = "SmoothBoost"
    /\ pc = "running"
    /\ iteration < SmbRounds
    /\ \E h \in SmbHypotheses :
          LET r == SmoothBoost_boost(booster, h, iteration + 1, sample)
          IN  /\ booster' = r.booster
              /\ ret' = [flow |-> r.flow, value |-> 0]
              /\ pc' = IF r.flow = "Continue" THEN "running" ELSE "stopped"
              /\ wl_calls' = IF r.called THEN wl_calls + 1 ELSE wl_calls
              /\ given' = IF r.called THEN SmoothBoost_dist(booster) ELSE given
              /\ produced' = IF r.called THEN h ELSE produced
    /\ iteration' = iteration + 1
    /\ UNCHANGED <<sample, output>>

SmbPostprocess ==
    /\ booster.alg = "SmoothBoost"
    /\ pc \in {"running", "stopped", "post"}
    /\ LET r == SmoothBoost_postprocess(booster)
       IN  /\ booster' = r.booster
           /\ output' = r.f
    /\ pc' = "post"
    /\ UNCHANGED <<sample, iteration, ret, wl_calls, given, produced>>

NextSmoothBoost == SmbTolerance \/ SmbGamma \/ SmbPreprocess \/ SmbBoost \/ SmbPostprocess

SpecSmoothBoost == InitSmoothBoost /\ [][NextSmoothBoost]_vars


-----------------------------------------------------------------------------
(* Classifier and CombinedHypothesis over f64: a value is a sign and a
   magnitude, so that 0.0 and -0.0 are two values, or NaN *)

F64(sign, magnitude) == [s |-> sign, v |-> magnitude]
F64NaN == [s |-> 1, v |-> NaN]
F64PosZero == F64(1, RZero)
F64NegZero == F64(-1, RZero)
F64IsNaN(a) == IsNaN(a.v)

\* the real number a finite value stands for
F64Real(a) == Rat(a.s * a.v[1], a.v[2])

F64Of(r) == F64(IF RLt(r, RZero) THEN -1 ELSE 1, RAbs(r))

\* a * b: the sign is the product of the signs, also for a product that is zero
F64Mul(a, b) ==
    IF F64IsNaN(a) \/ F64IsNaN(b) THEN F64NaN
    ELSE F64(a.s * b.s, RMul(a.v, b.v))

\* a + b, rounding to nearest: a sum that is zero is -0.0 only for (-0.0) + (-0.0)
F64Add(a, b) ==
    IF F64IsNaN(a) \/ F64IsNaN(b) THEN F64NaN
    ELSE LET r == RAdd(F64Real(a), F64Real(b))
         IN  IF r = RZero
             THEN (IF a.s = -1 /\ b.s = -1 THEN F64NegZero ELSE F64PosZero)
             ELSE F64Of(r)

\* f64::signum: 1.0 for 0.0 and above, -1.0 for -0.0 and below, NaN for NaN
F64_signum(a) == IF F64IsNaN(a) THEN F64NaN ELSE F64(a.s, ROne)

\* `as i64`: truncation towards zero, and 0 for NaN
F64_as_i64(a) == IF F64IsNaN(a) THEN 0 ELSE a.s * (a.v[1] \div a.v[2])

\* a == b of f64: false for NaN, true for 0.0 and -0.0
F64Eq(a, b) == ~F64IsNaN(a) /\ ~F64IsNaN(b) /\ F64Real(a) = F64Real(b)

\* Classifier::predict, from the confidence of the row
Classifier_predict(confidence) == F64_as_i64(F64_signum(confidence))

\* impl From<Vec<(f64, F)>> for CombinedHypothesis<F>
CombinedHypothesis_from_vec(inner) ==
    [alg |-> "CombinedHypothesis", inner |-> inner, constant |-> F64PosZero]

\* CombinedHypothesis::constant(value)
CombinedHypothesis_constant(f, value) == [f EXCEPT !.constant = value]

\* the sum of the iterator: a fold of + from `zero`
RECURSIVE F64Sum(_, _, _)
F64Sum(terms, k, acc) ==
    IF k > Len(terms) THEN acc ELSE F64Sum(terms, k + 1, F64Add(acc, terms[k]))

\* <CombinedHypothesis as Classifier>::confidence(df, row); `zero` is the value
\* the sum of f64 starts from, 0.0 or -0.0 with the version of the standard library
CombinedHypothesis_confidence(f, row, zero) ==
    F64Add(F64Sum([j \in DOMAIN f.inner |-> F64Mul(f.inner[j].w, f.inner[j].h[row])], 1, zero),
           f.constant)

\* <CombinedHypothesis as Classifier>::predict(df, row): the default method
CombinedHypothesis_predict(f, row, zero) ==
    Classifier_predict(CombinedHypothesis_confidence(f, row, zero))

-----------------------------------------------------------------------------
(* Sample::from_csv *)

\* The words a field of a CSV file can hold, and what str::parse::<f64> makes of them
CsvWords == {"1.0", "-1.0", "abc"}

ParseF64(word) ==
    IF word = "1.0" THEN [ok |-> TRUE, v |-> 1]
    ELSE IF word = "-1.0" THEN [ok |-> TRUE, v |-> -1]
    ELSE [ok |-> FALSE, v |-> 0]

\* A line of the reader: the fields between the commas, or an I/O error
IoError == <<"io error">>
CsvMaxFields == 2
CsvMaxLines == 2
CsvLines == {IoError} \cup UNION {[1..n -> CsvWords] : n \in 1..CsvMaxFields}
CsvFiles == UNION {[1..n -> CsvLines] : n \in 0..CsvMaxLines}

DenseFeature_new(name) == [name |-> name, values |-> <<>>]

\* The for loop of from_csv from line k on
RECURSIVE Sample_from_csv_lines(_, _, _, _, _)
Sample_from_csv_lines(lines, k, features, has_header, n_sample) ==
    IF k > Len(lines)
    THEN [kind |-> "Ok", features |-> features,
          n_sample |-> n_sample, n_feature |-> Len(features)]
    ELSE IF lines[k] = IoError THEN [kind |-> "Err"]
    ELSE LET line == lines[k]
             xs == [i \in DOMAIN line |-> ParseF64(line[i])]
         IN  IF \E i \in DOMAIN xs :
                    /\ ~xs[i].ok
                    /\ has_header => \A j \in 1..(i - 1) : j <= Len(features)
             THEN [kind |-> "panic", at |-> "parse"]
             ELSE IF ~has_header
             THEN Sample_from_csv_lines(lines, k + 1,
                      [i \in DOMAIN xs |-> [name |-> <<"Feat.", i>>, values |-> <<xs[i].v>>]],
                      TRUE, n_sample + 1)
             ELSE IF Len(xs) > Len(features)
             THEN [kind |-> "panic", at |-> "index"]
             ELSE Sample_from_csv_lines(lines, k + 1,
                      [i \in DOMAIN features |->
                          IF i <= Len(xs)
                          THEN [features[i] EXCEPT !.values = Append(@, xs[i].v)]
                          ELSE features[i]],
                      TRUE, n_sample + 1)

\* Sample::from_csv(file, has_header); `opens` is whether File::open succeeds
Sample_from_csv(opens, lines, has_header) ==
    IF ~opens THEN [kind |-> "Err"]
    ELSE IF has_header
    THEN IF Len(lines) = 0 THEN [kind |-> "panic", at |-> "next"]
         ELSE IF lines[1] = IoError THEN [kind |-> "Err"]
         ELSE Sample_from_csv_lines(lines, 2,
                  [i \in DOMAIN lines[1] |-> DenseFeature_new(lines[1][i])], TRUE, 0)
    ELSE Sample_from_csv_lines(lines, 1, <<>>, FALSE, 0)

-----------------------------------------------------------------------------
(* Logger: the struct, and the frame of its run (time_acc, file, flow) *)

\* u128::MAX; the stand-in of usize::MAX stands for it as well
DEFAULT_TIMELIMIT_MILLIS == UsizeMax

HEADER == "ObjectiveValue,TrainLoss,TestLoss,Time\n"

Logger_new(b) ==
    [alg |-> "Logger",
     booster |-> b,
     time_limit |-> DEFAULT_TIMELIMIT_MILLIS,
     time_acc |-> 0,
     file |-> <<>>,
     flow |-> NoReturn,
     postprocess_calls |-> 0]

Logger_time_limit_as_millis(l, time_limit) == [l EXCEPT !.time_limit = time_limit]

\* run up to the loop: the file is created, the header written, the booster preprocessed
Logger_run_open(l, target) ==
    [l EXCEPT !.file = <<HEADER>>,
              !.booster = GraphSepBoost_preprocess(@, target),
              !.time_acc = 0]

\* the call of boost in the loop body, which took `time` milliseconds
Logger_run_boost(l, h, iter, time) ==
    LET r == GraphSepBoost_boost(l.booster, h, iter)
    IN  [logger |-> [l EXCEPT !.booster = r.booster,
                              !.flow = [flow |-> r.flow, value |-> r.value],
                              !.time_acc = @ + time],
         called |-> r.called, dist |-> r.dist]

\* the row of the round: of its four values, the cumulative time is kept
Logger_run_write(l) == [l EXCEPT !.file = Append(@, l.time_acc)]

\* A faulty end of the loop body: the time limit is not looked at
Logger_run_check_NoLimit(l, iter) == l.flow

\* the end of the loop body: what the closure returns to try_for_each
Logger_run_check(l, iter) ==
    IF l.time_acc > l.time_limit
    THEN [flow |-> "Break", value |-> iter]
    ELSE l.flow

\* after the loop
Logger_run_postprocess(l) ==
    LET r == GraphSepBoost_postprocess(l.booster)
    IN  [logger |-> [l EXCEPT !.booster = r.booster, !.postprocess_calls = @ + 1],
         f |-> r.f]


\* Logger::run over GraphSepBoost.  The milliseconds a boost call can take, and
\* the limits given to time_limit_as_millis()
LogTimes == {0, 2}
LogTimeLimits == {1, 3}

InitLogger ==
    /\ sample \in Targets
    /\ booster = Logger_new(GraphSepBoost_init)
    /\ pc = "init"
    /\ iteration = 0
    /\ ret = NoReturn
    /\ wl_calls = 0
    /\ given = NoDist
    /\ produced = NoHypothesis
    /\ output = NoOutput

LogTimeLimit ==
    /\ booster.alg = "Logger"
    /\ pc = "init"
    /\ \E t \in LogTimeLimits : booster' = Logger_time_limit_as_millis(booster, t)
    /\ UNCHANGED <<sample, pc, iteration, ret, wl_calls, given, produced, output>>

\* File::create and the header: either can fail, and run returns the error
LogOpen ==
    /\ booster.alg = "Logger"
    /\ pc = "init"
    /\ \E ok \in BOOLEAN :
          IF ok
          THEN /\ booster' = Logger_run_open(booster, sample)
               /\ pc' = "boosting"
          ELSE /\ booster' = booster
               /\ pc' = "failed"
    /\ UNCHANGED <<sample, iteration, ret, wl_calls, given, produced, output>>

\* the loop body up to time_acc += time
LogBoost ==
    /\ booster.alg = "Logger"
    /\ pc = "boosting"
    /\ iteration < MaxRounds
    /\ \E h \in Hypotheses, time \in LogTimes :
          LET r == Logger_run_boost(booster, h, iteration + 1, time)
          IN  /\ booster' = r.logger
              /\ wl_calls' = IF r.called THEN wl_calls + 1 ELSE wl_calls
              /\ given' = IF r.called THEN r.dist ELSE given
              /\ produced' = IF r.called THEN h ELSE produced
    /\ iteration' = iteration + 1
    /\ pc' = "logging"
    /\ UNCHANGED <<sample, ret, output>>

\* the evaluation of the current hypothesis and write_all(..).expect(..)
LogWrite ==
    /\ booster.alg = "Logger"
    /\ pc = "logging"
    /\ \E ok \in BOOLEAN :
          IF ok
          THEN /\ booster' = Logger_run_write(booster)
               /\ pc' = "checking"
          ELSE /\ booster' = booster
               /\ pc' = "panicked"
    /\ UNCHANGED <<sample, iteration, ret, wl_calls, given, produced, output>>

\* the test of the time limit and the value the closure returns
LogCheck ==
    /\ booster.alg = "Logger"
    /\ pc = "checking"
    /\ ret' = Logger_run_check(booster, iteration)
    /\ pc' = IF ret'.flow = "Break" THEN "loop_done" ELSE "boosting"
    /\ UNCHANGED <<sample, booster, iteration, wl_calls, given, produced, output>>

\* postprocess and Ok(f)
LogPostprocess ==
    /\ booster.alg = "Logger"
    /\ pc = "loop_done"
    /\ LET r == Logger_run_postprocess(booster)
       IN  /\ booster' = r.logger
           /\ output' = r.f
    /\ pc' = "returned"
    /\ UNCHANGED <<sample, iteration, ret, wl_calls, given, produced>>

NextLogger == LogTimeLimit \/ LogOpen \/ LogBoost \/ LogWrite \/ LogCheck \/ LogPostprocess

SpecLogger == InitLogger /\ [][NextLogger]_vars


\* A call of Sample::from_csv: `booster` holds the arguments and the file behind
\* the path, `output` what the call returned
InitSample ==
    /\ sample \in Targets
    /\ \E opens \in BOOLEAN, lines \in CsvFiles, has_header \in BOOLEAN :
          booster = [alg |-> "Sample", opens |-> opens, lines |-> lines,
                     has_header |-> has_header]
    /\ pc = "init"
    /\ iteration = 0
    /\ ret = NoReturn
    /\ wl_calls = 0
    /\ given = NoDist
    /\ produced = NoHypothesis
    /\ output = NoOutput

SampleFromCsv ==
    /\ booster.alg = "Sample"
    /\ pc = "init"
    /\ output' = Sample_from_csv(booster.opens, booster.lines, booster.has_header)
    /\ pc' = CASE output'.kind = "Ok" -> "returned"
               [] output'.kind = "Err" -> "failed"
               [] OTHER -> "panicked"
    /\ UNCHANGED <<sample, booster, iteration, ret, wl_calls, given, produced>>

NextSample == SampleFromCsv

\* The loader and the logger together
InitIO == InitSample \/ InitLogger
NextIO == NextSample \/ NextLogger
SpecIO == InitIO /\ [][NextIO]_vars

\* The confidences a classifier can give to a row, and the weights and constants
\* a combined hypothesis is built with
F64Confidences == {F64Of(RInt(-1)), F64NegZero, F64PosZero, F64Of(ROne), F64NaN}
F64Classifiers == [Rows -> F64Confidences]
F64Weights == {F64Of(ROne), F64Of(Rat(-1, 2))}
F64Constants == {F64Of(Rat(1, 2)), F64NegZero}
F64Entries == {[w |-> w, h |-> h] : w \in F64Weights, h \in F64Classifiers}
\* the second entry of a list of two: a classifier with confidences -1.0 and 1.0
F64SignEntries ==
    {[w |-> w, h |-> [i \in Rows |-> F64Of(RInt(h[i]))]] : w \in F64Weights, h \in Hypotheses}
F64Inners ==
    {<<>>} \cup {<<e>> : e \in F64Entries}
           \cup {<<e1, e2>> : e1 \in F64Entries, e2 \in F64SignEntries}

\* CombinedHypothesis::from(inner)
InitHypothesis ==
    /\ sample = AdaTarget
    /\ \E inner \in F64Inners : booster = CombinedHypothesis_from_vec(inner)
    /\ pc = "init"
    /\ iteration = 0
    /\ ret = NoReturn
    /\ wl_calls = 0
    /\ given = NoDist
    /\ produced = NoHypothesis
    /\ output = NoOutput

\* f.constant(value)
HypConstant ==
    /\ booster.alg = "CombinedHypothesis"
    /\ pc = "init"
    /\ Len(booster.inner) <= 1
    /\ \E value \in F64Constants : booster' = CombinedHypothesis_constant(booster, value)
    /\ pc' = "built"
    /\ UNCHANGED <<sample, iteration, ret, wl_calls, given, produced, output>>

\* f.confidence(df, row)
HypConfidence ==
    /\ booster.alg = "CombinedHypothesis"
    /\ pc \in {"init", "built"}
    /\ \E row \in Rows, zero \in {F64PosZero, F64NegZero} :
          output' = [kind |-> "confidence", row |-> row,
                     value |-> CombinedHypothesis_confidence(booster, row, zero)]
    /\ pc' = "returned"
    /\ UNCHANGED <<sample, booster, iteration, ret, wl_calls, given, produced>>

\* f.predict(df, row)
HypPredict ==
    /\ booster.alg = "CombinedHypothesis"
    /\ pc \in {"init", "built"}
    /\ \E row \in Rows, zero \in {F64PosZero, F64NegZero} :
          output' = [kind |-> "predict", row |-> row,
                     value |-> CombinedHypothesis_predict(booster, row, zero)]
    /\ pc' = "returned"
    /\ UNCHANGED <<sample, booster, iteration, ret, wl_calls, given, produced>>

NextHypothesis == HypConstant \/ HypConfidence \/ HypPredict

SpecHypothesis == InitHypothesis /\ [][NextHypothesis]_vars

\* The runs of SoftBoost are followed for this many boost calls
SoftRounds == MaxRounds - 2
\* The values given to nu() and tolerance() of SoftBoost
SoftNus == {ROne, Rat(3, 2), RInt(NumRows + 1)}
SoftTolerances == {Rat(1, NumRows), Rat(2, NumRows)}

InitSoftBoost ==
    /\ sample = AdaTarget
    /\ booster = SoftBoost_init
    /\ pc = "init"
    /\ iteration = 0
    /\ ret = NoReturn
    /\ wl_calls = 0
    /\ given = NoDist
    /\ produced = NoHypothesis
    /\ output = NoOutput

SoftNu ==
    /\ booster.alg = "SoftBoost"
    /\ pc = "init"
    /\ \E nu \in SoftNus :
          IF SoftBoost_nu_ok(booster, nu)
          THEN booster' = SoftBoost_nu(booster, nu) /\ pc' = "init"
          ELSE booster' = booster /\ pc' = "panicked"
    /\ UNCHANGED <<sample, iteration, ret, wl_calls, given, produced, output>>

SoftTolerance ==
    /\ booster.alg = "SoftBoost"
    /\ pc = "init"
    /\ \E t \in SoftTolerances : booster' = SoftBoost_tolerance(booster, t)
    /\ UNCHANGED <<sample, pc, iteration, ret, wl_calls, given, produced, output>>

SoftPreprocess ==
    /\ booster.alg = "SoftBoost"
    /\ pc \in {"init", "stopped"}
    /\ booster' = SoftBoost_preprocess(booster)
    /\ pc' = "running"
    /\ iteration' = 0
    /\ ret' = NoReturn
    /\ wl_calls' = 0
    /\ given' = NoDist
    /\ produced' = NoHypothesis
    /\ output' = NoOutput
    /\ UNCHANGED sample

\* One call of boost; ret keeps what the call did with the solver
SoftBoostRound ==
    /\ booster.alg = "SoftBoost"
    /\ pc = "running"
    /\ iteration < SoftRounds
    /\ \E h \in Hypotheses :
       \E r \in SoftBoost_boost(booster, h, iteration + 1, sample) :
          /\ booster' = r.booster
          /\ ret' = [flow |-> r.flow, value |-> 0, infeasible |-> r.infeasible,
                     programs |-> r.programs, zero_programs |-> r.zero_programs]
          /\ pc' = IF r.panic THEN "panicked"
                   ELSE IF r.flow = "Continue" THEN "running" ELSE "stopped"
          /\ wl_calls' = IF r.called THEN wl_calls + 1 ELSE wl_calls
          /\ given' = IF r.called THEN booster.dist ELSE given
          /\ produced' = IF r.called THEN h ELSE produced
    /\ iteration' = iteration + 1
    /\ UNCHANGED <<sample, output>>

NextSoftBoost == SoftNu \/ SoftTolerance \/ SoftPreprocess \/ SoftBoostRound

SpecSoftBoost == InitSoftBoost /\ [][NextSoftBoost]_vars

\* MLPBoost
MlpTolerances == {(6 * FpOne) \div 10, FpOne}

InitMLPBoost ==
    /\ sample = AdaTarget
    /\ booster = MLPBoost_init
    /\ pc = "init"
    /\ iteration = 0
    /\ ret = NoReturn
    /\ wl_calls = 0
    /\ given = NoDist
    /\ produced = NoHypothesis
    /\ output = NoOutput

\* MLPBoost::init(..).tolerance(tolerance)
MlpTolerance ==
    /\ booster.alg = "MLPBoost"
    /\ pc = "init"
    /\ \E t \in MlpTolerances : booster' = MLPBoost_tolerance(booster, t)
    /\ UNCHANGED <<sample, pc, iteration, ret, wl_calls, given, produced, output>>

\* preprocess panics in init_params when the tolerance is not in [0, 0.5)
MlpPreprocess ==
    /\ booster.alg = "MLPBoost"
    /\ pc \in {"init", "stopped", "post"}
    /\ IF MLPBoost_tolerance_ok(booster)
       THEN /\ booster' = MLPBoost_preprocess(booster)
            /\ pc' = "running"
       ELSE /\ booster' = booster
            /\ pc' = "panicked"
    /\ iteration' = 0
    /\ ret' = NoReturn
    /\ wl_calls' = 0
    /\ given' = NoDist
    /\ produced' = NoHypothesis
    /\ output' = NoOutput
    /\ UNCHANGED sample

\* One call of boost: the weak learner answers with any h; a round that adds a
\* constraint takes any answer of the solver to the new program
MlpBoost ==
    /\ booster.alg = "MLPBoost"
    /\ pc = "running"
    /\ iteration < AdaRounds
    /\ \E h \in Hypotheses :
          \E sol \in IF \E k \in DOMAIN booster.classifiers : booster.classifiers[k] = h
                     THEN {[status |-> "Loaded", x |-> <<>>, gamma |-> RZero, pi |-> <<>>]}
                     ELSE Solver_optimize(
                              Append(booster.lp_model.constrs, Margins(h, sample)),
                              booster.lp_model.upper_bound) :
              \E r \in {MLPBoost_boost(booster, h, iteration + 1, sample, sol)} :
                  /\ booster' = r.booster
                  /\ ret' = [flow |-> r.flow, value |-> 0]
                  /\ pc' = IF r.panic THEN "panicked"
                           ELSE IF r.flow = "Continue" THEN "running" ELSE "stopped"
                  /\ wl_calls' = IF r.called THEN wl_calls + 1 ELSE wl_calls
                  /\ given' = IF r.called THEN r.dist ELSE given
                  /\ produced' = IF r.called THEN h ELSE produced
    /\ iteration' = iteration + 1
    /\ UNCHANGED <<sample, output>>

MlpPostprocess ==
    /\ booster.alg = "MLPBoost"
    /\ pc \in {"running", "stopped", "post"}
    /\ LET r == MLPBoost_postprocess(booster)
       IN  /\ booster' = r.booster
           /\ output' = r.f
    /\ pc' = "post"
    /\ UNCHANGED <<sample, iteration, ret, wl_calls, given, produced>>

NextMLPBoost == MlpTolerance \/ MlpPreprocess \/ MlpBoost \/ MlpPostprocess

SpecMLPBoost == InitMLPBoost /\ [][NextMLPBoost]_vars

\* The two boosters that look a new hypothesis up in their list
InitHypothesisLists == InitCERLPBoost \/ InitMLPBoost

NextHypothesisLists == NextCERLPBoost \/ NextMLPBoost

SpecHypothesisLists == InitHypothesisLists /\ [][NextHypothesisLists]_vars

\* The soft-margin boosters together
InitSoftMargin == InitLPBoost \/ InitCERLPBoost
NextSoftMargin == NextLPBoost \/ NextCERLPBoost
SpecSoftMargin == InitSoftMargin /\ [][NextSoftMargin]_vars

\* AdaBoost and AdaBoostV together
InitAda == InitAdaBoost \/ InitAdaBoostV
NextAda == NextAdaBoost \/ NextAdaBoostV
SpecAda == InitAda /\ [][NextAda]_vars

Init == InitGraphSep \/ InitAdaBoost \/ InitAdaBoostV \/ InitCERLPBoost
Next == NextGraphSep \/ NextAdaBoost \/ NextAdaBoostV \/ NextCERLPBoost
Spec == Init /\ [][Next]_vars

-----------------------------------------------------------------------------
(* Properties of GraphSepBoost *)

IsGsb == booster.alg = "GraphSepBoost"

\* a step that is one call of boost
BoostCall == pc = "running" /\ iteration' = iteration + 1

\* the pairs that are edges after preprocess
InitialEdge(i, j) == sample[i] # sample[j]

\* number of undirected edges after preprocess
InitialUndirectedEdges ==
    Cardinality({p \in Rows \X Rows : p[1] < p[2] /\ InitialEdge(p[1], p[2])})

Separated(hs, i, j) == \E k \in DOMAIN hs : hs[k][i] # hs[k][j]

\* C3 as stated: after GraphSepBoost terminates, every pair of rows with an
\* edge initially is separated by some collected hypothesis, whatever the weak
\* learner returned.
C3_Original ==
    (IsGsb /\ pc = "stopped") =>
        \A i, j \in Rows : InitialEdge(i, j) => Separated(booster.hypotheses, i, j)

\* C3 amended: after GraphSepBoost terminates, a pair with an edge initially is
\* separated by some collected hypothesis exactly when its edge has been
\* removed; when the run ends with n_edges = 0 every such pair is separated.
C3_Separation ==
    (IsGsb /\ pc = "stopped") =>
        /\ \A i, j \in Rows : InitialEdge(i, j) =>
              (Separated(booster.hypotheses, i, j) <=> j \notin booster.edges[i])
        /\ booster.n_edges = 0 =>
              \A i, j \in Rows : InitialEdge(i, j) => Separated(booster.hypotheses, i, j)

\* a run that ended with no edge left, after rounds that removed edges
C3_Witness ==
    /\ IsGsb /\ pc = "stopped"
    /\ booster.n_edges = 0
    /\ InitialUndirectedEdges > 0
    /\ Len(booster.hypotheses) >= 2

EdgesSymmetric(edges) == \A i, j \in Rows : (j \in edges[i]) <=> (i \in edges[j])

\* C4: after preprocess and after every boost call the adjacency is symmetric,
\* n_edges is the sum of the sizes of the edge sets, preprocess creates exactly
\* the pairs with different targets, and a boost call only removes edges.
C4_EdgeInvariant ==
    /\ [](IsGsb /\ pc # "init" =>
            /\ EdgesSymmetric(booster.edges)
            /\ booster.n_edges = GSB_count_edges(booster.edges))
    /\ [](IsGsb /\ pc = "running" /\ iteration = 0 =>
            \A i \in Rows : booster.edges[i] = {j \in Rows : InitialEdge(i, j)})
    /\ [][IsGsb /\ BoostCall => \A i \in Rows : booster'.edges[i] \subseteq booster.edges[i]]_vars

\* a round has removed some edges and left others
C4_Witness ==
    /\ IsGsb /\ pc = "running" /\ iteration >= 1
    /\ booster.n_edges > 0
    /\ booster.n_edges < 2 * InitialUndirectedEdges

\* C5: boost breaks when no edge remains and when a round removes no edge,
\* every round that continues strictly decreases n_edges, and a run makes at
\* most (initial number of undirected edges) + 1 boost calls.
C5_Termination ==
    /\ [][IsGsb /\ BoostCall =>
            /\ booster.n_edges = 0 => ret'.flow = "Break"
            /\ booster'.edges = booster.edges => ret'.flow = "Break"
            /\ ret'.flow = "Continue" => booster'.n_edges < booster.n_edges]_vars
    /\ [](IsGsb => iteration <= InitialUndirectedEdges + 1)

\* a run that needed every one of the calls the bound allows
C5_Witness ==
    /\ IsGsb /\ pc = "stopped"
    /\ InitialUndirectedEdges >= 2
    /\ iteration = InitialUndirectedEdges + 1

-----------------------------------------------------------------------------
(* Properties of AdaBoost and AdaBoostV *)

IsAdaBoost == booster.alg = "AdaBoost"
IsAdaBoostV == booster.alg = "AdaBoostV"
IsAda == IsAdaBoost \/ IsAdaBoostV

\* the list of (weight, hypothesis) pairs the booster holds
AdaList(b) ==
    IF b.alg = "AdaBoost" THEN b.weighted_classifiers
    ELSE [k \in 1..Len(b.weights) |-> [w |-> b.weights[k], h |-> b.classifiers[k]]]

\* a boost call that got past the max_iter test and obtained a hypothesis
ProduceCall == BoostCall /\ wl_calls' = wl_calls + 1

\* what C1 says of a boost call that obtained the hypothesis h
C1_Branches(h) ==
    LET edge == Edge(Margins(h, sample), booster.dist)
    IN  /\ (~IsNaN(edge) /\ RLe(ROne, RAbs(edge))) =>
              /\ AdaList(booster') = <<[w |-> WNum(Signum(edge)), h |-> h]>>
              /\ booster'.dist = booster.dist
              /\ booster'.terminated = iteration'
              /\ ret'.flow = "Terminate"
        /\ (~IsNaN(edge) /\ RLt(RAbs(edge), ROne)) =>
              /\ Len(AdaList(booster')) = Len(AdaList(booster)) + 1
              /\ SubSeq(AdaList(booster'), 1, Len(AdaList(booster))) = AdaList(booster)
              /\ AdaList(booster')[Len(AdaList(booster'))].h = h
              /\ ret'.flow = "Continue"

\* C1 as stated: a boost call of AdaBoost or AdaBoostV whose hypothesis h has
\* |edge| >= 1 replaces the list by [(sign(edge), h)], leaves dist unchanged, sets
\* terminated = iteration and returns Terminate; with |edge| < 1 it appends exactly
\* one entry (alpha, h) and returns Continue.
C1_Original ==
    [][IsAda /\ ProduceCall => \E h \in Hypotheses : C1_Branches(h)]_vars

\* C1 for the calls that return: the same, for every boost call that does not panic.
C1_ReturningCalls ==
    [][IsAda /\ ProduceCall /\ pc' # "panicked" => \E h \in Hypotheses : C1_Branches(h)]_vars

\* a run ended by a hypothesis with |edge| = 1 after rounds that appended entries
C1_Witness ==
    /\ IsAda /\ pc = "stopped" /\ iteration >= 2
    /\ booster.terminated = iteration
    /\ Len(AdaList(booster)) = 1

-----------------------------------------------------------------------------
(* Properties of the weighting, of postprocess and of preprocess *)

\* vec has only finite, non-negative entries and sums to 1
IsDistribution(vec) ==
    /\ ~HasNaN(vec)
    /\ \A i \in DOMAIN vec : vec[i][1] >= 0
    /\ LET den == CommonDen(vec, Len(vec))
       IN  SumTo(Numerators(vec, den), Len(vec)) = den

IsCerlp == booster.alg = "CERLPBoost"

\* the same in fixed point, up to the rounding of the entries, with the cap 1 / nu
FpIsCappedDistribution(vec, nu) ==
    /\ \A i \in DOMAIN vec : 0 <= vec[i] /\ vec[i] <= FpDiv(FpOne, nu) + 1
    /\ Abs(SumTo(vec, Len(vec)) - FpOne) <= Len(vec)

\* C2 as stated: after preprocess and after every boost call the weighting the
\* booster maintains (dist) and the one it handed to the weak learner have only
\* finite, non-negative entries and sum to 1, and no entry of CERLPBoost's is
\* above 1 / nu.
C2_Original ==
    pc \in {"running", "stopped"} =>
        /\ IsAda => IsDistribution(booster.dist)
        /\ IsAda \/ IsGsb => (given # NoDist => IsDistribution(given))
        /\ IsCerlp => /\ FpIsCappedDistribution(booster.dist, booster.nu)
                      /\ given # NoDist => FpIsCappedDistribution(given, booster.nu)

\* a step that is one call of postprocess
PostprocessCall == pc # "post" /\ pc' = "post"
\* a step that is a second call of postprocess in a row
PostprocessAgain == pc = "post" /\ pc' = "post"

\* C6 as stated: postprocess leaves every field of the booster as it was, and a
\* second postprocess in a row returns the same combined hypothesis.
C6_Original ==
    /\ [][PostprocessCall \/ PostprocessAgain => booster' = booster]_vars
    /\ [][PostprocessAgain => output' = output]_vars

\* the freshly initialised booster with the parameters of b
Fresh(b) ==
    CASE b.alg = "GraphSepBoost" -> GraphSepBoost_init
      [] b.alg = "AdaBoost" -> AdaBoost_tolerance(AdaBoost_init, b.tolerance)
      [] b.alg = "AdaBoostV" -> AdaBoostV_tolerance(AdaBoostV_init, b.tolerance)
      [] b.alg = "CERLPBoost" -> [CERLPBoost_init EXCEPT !.tolerance = b.tolerance,
                                                          !.nu = b.nu, !.eta = b.eta]

\* preprocess applied to b
Preprocessed(b) ==
    CASE b.alg = "GraphSepBoost" -> GraphSepBoost_preprocess(b, sample)
      [] b.alg = "AdaBoost" -> AdaBoost_preprocess(b)
      [] b.alg = "AdaBoostV" -> AdaBoostV_preprocess(b)
      [] b.alg = "CERLPBoost" -> CERLPBoost_preprocess(b)

\* C7 as stated: the state right after preprocess is the state preprocess gives
\* on a freshly initialised booster with the same parameters, whatever run came
\* before.
C7_Original ==
    (pc = "running" /\ iteration = 0) => booster = Preprocessed(Fresh(booster))

-----------------------------------------------------------------------------
(* Properties of the iteration bound *)

\* the booster struct has a max_iter field
KeepsMaxIter(b) == "max_iter" \in DOMAIN b

\* number of hypotheses the booster holds
NumHypotheses(b) ==
    CASE b.alg = "GraphSepBoost" -> Len(b.hypotheses)
      [] b.alg = "CERLPBoost" -> Len(b.classifiers)
      [] OTHER -> Len(AdaList(b))

-----------------------------------------------------------------------------
(* Properties of CERLPBoost *)

\* the gap <g, d> of the hypothesis h against the combined hypothesis of b, under b.dist
CerlpGap(h, b) == CERLPBoost_diff(CERLPBoost_gap_vec(b, h, sample), b.dist)

PassedTolerance(b) == 2 * b.tolerance

\* ceil(8 * ln(m / nu) / epsilon^2) for the epsilon given to tolerance()
C10_Bound(b) ==
    CeilDiv(8 * CERLPBoost_ln_part(b) * FpOne, PassedTolerance(b) * PassedTolerance(b))

\* C10 as stated: a CERLPBoost configured with tolerance(epsilon) and nu(nu) has
\* completed at most ceil(8 * ln(m / nu) / epsilon^2) rounds whenever its run goes on.
C10_Original ==
    (IsCerlp /\ pc = "running" /\ booster.tolerance # FpUni) =>
        iteration <= C10_Bound(booster)

-----------------------------------------------------------------------------
(* Properties of LPBoost *)

IsLpb == booster.alg = "LPBoost"

\* the constraints of the hypotheses hs, one per hypothesis, in their order
LpbConstraints(hs) == [j \in DOMAIN hs |-> Margins(hs[j], sample)]

\* the optimum of the LP that has one constraint per hypothesis of hs
LpbGammaStar(hs, nu) ==
    Rat(SetMin({LpGammaAt(LpbConstraints(hs), d) : d \in LPModel_feasible(RDiv(ROne, nu))}), LpDen)

\* d is an optimal solution of that LP: within the bounds, summing to 1, and
\* with every hypothesis of hs at an edge of at most the optimum
LpbSolves(d, hs, nu) ==
    /\ IsDistribution(d)
    /\ \A i \in Rows : RLe(d[i], RDiv(ROne, nu))
    /\ \A j \in DOMAIN hs : RLe(Edge(Margins(hs[j], sample), d), LpbGammaStar(hs, nu))

\* C11: in every boost call of LPBoost gamma_hat becomes the smaller of its old
\* value (1 when the run starts) and the edge of the new hypothesis under the
\* distribution it was produced for; with gamma_star the optimum of the LP over
\* the hypotheses obtained so far in the run, a call that returns Terminate has
\* gamma_hat - gamma_star <= tolerance, and a call that returns Continue has
\* gamma_star < gamma_hat - tolerance and leaves an optimal LP solution in dist.
C11_StoppingRule ==
    /\ [](IsLpb /\ pc = "running" /\ iteration = 0 =>
            booster.gamma_hat = ROne /\ booster.classifiers = <<>>)
    /\ [][IsLpb /\ BoostCall /\ pc' # "panicked" =>
            LET gamma_hat == booster'.gamma_hat
                gamma_star == LpbGammaStar(booster'.classifiers, booster.nu)
            IN  /\ booster'.classifiers = Append(booster.classifiers, produced')
                /\ given' = booster.dist
                /\ gamma_hat = RMin(booster.gamma_hat, Edge(Margins(produced', sample), given'))
                /\ ret'.flow \in {"Terminate", "Continue"}
                /\ ret'.flow = "Terminate" =>
                       RLe(RSub(gamma_hat, gamma_star), booster.tolerance)
                /\ ret'.flow = "Continue" =>
                       /\ RLt(gamma_star, RSub(gamma_hat, booster.tolerance))
                       /\ LpbSolves(booster'.dist, booster'.classifiers, booster.nu)]_vars

\* a run that continued, with a new distribution, and then terminated
C11_Witness ==
    /\ IsLpb /\ pc = "stopped" /\ ret.flow = "Terminate"
    /\ Len(booster.classifiers) >= 2
    /\ RLt(RZero, booster.tolerance)
    /\ booster.dist # UniformDist
    /\ RLt(booster.gamma_hat, ROne)

\* the values of the weights of a combined hypothesis
InnerWeights(f) == [k \in DOMAIN f.inner |-> f.inner[k].w.v]

\* number of the first j multipliers that are not zero
LpbRank(pi, j) == Cardinality({i \in 1..j : pi[i] # RZero})

\* C12: the combined hypothesis LPBoost returns after boosting rounds holds, in
\* the order of the hypotheses, the pair (|pi_j|, h_j) for exactly the j whose
\* multiplier pi_j is not zero, where pi_j is the multiplier of the constraint of
\* the j-th hypothesis of the run in the last LP solved, and these multipliers
\* are optimal: the weighted hypotheses reach the optimum gamma_star against
\* every distribution within the bounds.  Every weight is > 0 and they sum to 1.
C12_Weights ==
    (IsLpb /\ pc = "post" /\ iteration >= 1) =>
        LET lp == booster.lp_model
            hs == booster.classifiers
            w == InnerWeights(output)
            den == CommonDen(w, Len(w))
            gamma_star == LpbGammaStar(hs, booster.nu)
            optimum == gamma_star[1] * (LpDen \div gamma_star[2]) * LpDen
        IN  /\ output.kind = "CombinedHypothesis"
            /\ lp.constrs = LpbConstraints(hs)
            /\ Len(output.inner) = LpbRank(lp.pi, Len(hs))
            /\ \A j \in DOMAIN hs :
                   lp.pi[j] # RZero =>
                       output.inner[LpbRank(lp.pi, j)] =
                           [w |-> WNum(RAbs(lp.pi[j])), h |-> hs[j]]
            /\ \A k \in DOMAIN w : output.inner[k].w.tag = "num" /\ RLt(RZero, w[k])
            /\ SumTo(Numerators(w, den), Len(w)) = den
            /\ \A d \in LPModel_feasible(lp.upper_bound) :
                   SumTo([j \in DOMAIN hs |-> (-lp.pi[j][1]) * (LpDen \div lp.pi[j][2])
                                                  * LpEdge(lp.constrs[j], d)], Len(hs))
                       >= optimum

\* a combined hypothesis of two weighted hypotheses out of three
C12_Witness ==
    /\ IsLpb /\ pc = "post" /\ ret.flow = "Terminate"
    /\ Len(booster.classifiers) = 3
    /\ Len(output.inner) = 2

-----------------------------------------------------------------------------
(* Properties of GBM *)

IsGbm == booster.alg = "GBM"

\* C13: a GBM boost call that asks the weak learner and finds the best
\* coefficient of the new hypothesis to be exactly 0 returns Break(iteration) and
\* leaves weights, hypotheses and predictions as they were; with any other
\* coefficient it appends exactly the pair (coefficient, hypothesis) and adds
\* coefficient * q_i to every prediction p_i.
C13_ZeroCoefficient ==
    [][IsGbm /\ BoostCall /\ wl_calls' = wl_calls + 1 =>
          LET q == produced'
              coef == GBMLoss_best_coefficient([i \in Rows |-> RInt(sample[i])], q)
          IN  IF coef = RZero
              THEN /\ ret' = [flow |-> "Break", value |-> iteration']
                   /\ booster'.weights = booster.weights
                   /\ booster'.hypotheses = booster.hypotheses
                   /\ booster'.predictions = booster.predictions
              ELSE /\ ret'.flow = "Continue"
                   /\ booster'.weights = Append(booster.weights, coef)
                   /\ booster'.hypotheses = Append(booster.hypotheses, q)
                   /\ \A i \in Rows :
                          booster'.predictions[i] =
                              RAdd(booster.predictions[i], RMul(coef, RInt(q[i])))]_vars

\* a round that broke on a zero coefficient after a round that appended a hypothesis
C13_Witness ==
    /\ IsGbm /\ pc = "stopped" /\ iteration = 2
    /\ ret = [flow |-> "Break", value |-> 2]
    /\ Len(booster.hypotheses) = 1
    /\ booster.terminated = 2

\* the alpha that minimises sum_i (y_i - (p_i + alpha * q_i))^2
L2BestCoefficient(y, p, q) ==
    RDiv(RSumTo([i \in Rows |-> RMul(RSub(RInt(y[i]), p[i]), RInt(q[i]))], NumRows),
         RInt(SumTo([i \in Rows |-> q[i] * q[i]], NumRows)))

\* C14 as stated: the coefficient of a round is the minimiser of the L2 loss of
\* p + alpha * q, with p the predictions accumulated before the round: the round
\* breaks when that minimiser is 0 and appends it otherwise.
C14_Original ==
    [][IsGbm /\ BoostCall /\ wl_calls' = wl_calls + 1 =>
          LET alpha == L2BestCoefficient(sample, booster.predictions, produced')
          IN  IF alpha = RZero
              THEN ret'.flow = "Break"
              ELSE /\ ret'.flow = "Continue"
                   /\ booster'.weights = Append(booster.weights, alpha)]_vars

-----------------------------------------------------------------------------
(* Properties of SmoothBoost *)

IsSmb == booster.alg = "SmoothBoost"

\* C15 as stated: after preprocess and after every boost call of SmoothBoost,
\* every m[j] is 1 when n[j] <= 0 and (1 - gamma)^(n[j] / 2) otherwise (all of
\* them 1 right after preprocess), and every m[j] lies in [0, 1].
C15_Original ==
    IsSmb /\ pc \in {"running", "stopped"} =>
        \A j \in Rows :
            /\ booster.m[j] =
                  (IF iteration = 0 \/ booster.n[j] <= 0 THEN FpOne
                   ELSE FpPowf(FpOne - booster.gamma, DivRound(booster.n[j], 2)))
            /\ 0 <= booster.m[j] /\ booster.m[j] <= FpOne

\* C16: when a run of SmoothBoost was stopped by boost, by the test
\* sum(m) < n_sample * kappa or by the test max_iter < iteration, postprocess
\* returns the T collected hypotheses in their order, each with the weight 1 / T,
\* so that the weights sum to 1.
C16_UniformWeights ==
    IsSmb /\ pc = "post" /\ ret.flow = "Terminate" =>
        LET T == Len(booster.classifiers)
        IN  /\ T >= 1
            /\ output.kind = "CombinedHypothesis"
            /\ Len(output.inner) = T
            /\ \A k \in 1..T : output.inner[k] = [w |-> WNum(Rat(1, T)), h |-> booster.classifiers[k]]
            /\ RSumTo([k \in 1..T |-> output.inner[k].w.v], T) = ROne

\* the combined hypothesis of a run that max_iter stopped, with a proper gamma
C16_Witness ==
    /\ IsSmb /\ pc = "post" /\ ret.flow = "Terminate"
    /\ booster.gamma > 0
    /\ iteration = booster.max_iter + 1
    /\ Len(output.inner) = booster.max_iter

-----------------------------------------------------------------------------
(* Properties of the parameters and of the solver's status *)

\* nu as a rational, whichever booster holds it
NuOf(b) == IF b.alg = "CERLPBoost" THEN Rat(b.nu, FpOne) ELSE b.nu

NuInRange(nu) == RLe(ROne, nu) /\ RLe(nu, RInt(NumRows))

\* C17: nu(nu) of LPBoost and of CERLPBoost panics, storing nothing, exactly when
\* nu < 1 or nu > m and stores nu otherwise, so that the nu of a built booster is
\* always in [1, m]; once preprocess has run, 1 <= nu <= m and the cap 1 / nu is
\* in [1/m, 1] (for LPBoost it is the upper bound given to the LP).
C17_NuRange ==
    /\ [](IsLpb /\ pc = "init" =>
            \A nu \in LpbNus :
                LET r == LPBoost_nu(booster, nu)
                IN  /\ r.panic <=> (RLt(nu, ROne) \/ RLt(RInt(NumRows), nu))
                    /\ IF r.panic THEN r.booster = booster ELSE r.booster.nu = nu)
    /\ [](IsCerlp /\ pc = "init" =>
            \A nu \in CerlpNuArgs :
                CERLPBoost_nu_ok(booster, nu) <=> ~(nu < FpOne \/ nu > NumRows * FpOne))
    /\ [][pc = "init" /\ pc' = "panicked" /\ IsLpb => booster' = booster]_vars
    /\ [][pc = "init" /\ pc' = "init" /\ NuOf(booster') # NuOf(booster) =>
            NuInRange(NuOf(booster'))]_vars
    /\ [](pc \in {"init", "running", "stopped", "post"} =>
            /\ NuInRange(NuOf(booster))
            /\ RLe(Rat(1, NumRows), RDiv(ROne, NuOf(booster)))
            /\ RLe(RDiv(ROne, NuOf(booster)), ROne))
    /\ [](IsLpb /\ pc \in {"running", "stopped", "post"} =>
            booster.lp_model.upper_bound = RDiv(ROne, booster.nu))

\* a round of LPBoost run with a nu that the builder stored
C17_Witness ==
    /\ IsLpb /\ pc = "running" /\ iteration = 1
    /\ booster.nu = Rat(3, 2)
    /\ booster.lp_model.upper_bound = Rat(2, 3)

\* C18 as stated: no round of a booster starts with a tolerance that is zero or
\* negative, such a value having been rejected by the builder.
C18_Original ==
    IsLpb /\ pc = "running" => RLt(RZero, booster.tolerance)

\* C19 as stated: a round that calls the solver panics exactly when the status
\* the solver reports is none of Optimal, SubOptimal, Infeasible and InfOrUnbd.
C19_Original ==
    [][IsLpb /\ BoostCall =>
          (pc' = "panicked" <=>
              booster'.lp_model.status \notin {"Optimal", "SubOptimal", "Infeasible", "InfOrUnbd"})]_vars

-----------------------------------------------------------------------------
(* Properties of Logger::run *)

IsLog == booster.alg = "Logger"

\* C20: in Logger::run the time limit is tested only when the boost call of the
\* round has returned and the row of the round is in the file; the loop ends only
\* at that test, and it ends there whenever the cumulative time exceeds
\* time_limit or boost returned Break, without another boost call; once the loop
\* has ended the only step is the one call of postprocess, and run returns that
\* call's combined hypothesis; before that, postprocess was not called.
C20_TimeLimit ==
    /\ [](IsLog /\ pc = "checking" =>
            /\ booster.flow.flow \in {"Break", "Continue"}
            /\ Len(booster.file) = iteration + 1
            /\ booster.file[iteration + 1] = booster.time_acc)
    /\ [][IsLog /\ pc' = "loop_done" => pc = "checking"]_vars
    /\ [][IsLog /\ pc = "checking" =>
            /\ iteration' = iteration /\ booster' = booster
            /\ pc' = IF booster.time_acc > booster.time_limit \/ booster.flow.flow = "Break"
                     THEN "loop_done" ELSE "boosting"]_vars
    /\ [][IsLog /\ pc = "loop_done" =>
            /\ pc' = "returned"
            /\ output' = GraphSepBoost_postprocess(booster.booster).f
            /\ booster'.postprocess_calls = 1]_vars
    /\ [](IsLog =>
            /\ booster.postprocess_calls = (IF pc = "returned" THEN 1 ELSE 0)
            /\ pc # "returned" => output = NoOutput)
    /\ [][IsLog /\ pc = "returned" => FALSE]_vars

\* a run that the time limit ended while boost had returned Continue
C20_Witness ==
    /\ IsLog /\ pc = "returned"
    /\ booster.flow.flow = "Continue" /\ ret.flow = "Break"
    /\ booster.time_acc > booster.time_limit
    /\ iteration >= 2
    /\ Len(output.hypotheses) = iteration

-----------------------------------------------------------------------------
(* Properties of the I/O errors *)

IsSample == booster.alg = "Sample"

\* the file has a field that is not a number, on a line that is read as data
CsvHasBadField(lines, has_header) ==
    \E k \in DOMAIN lines :
       /\ has_header => k > 1
       /\ lines[k] # IoError
       /\ \E i \in DOMAIN lines[k] : ~ParseF64(lines[k][i]).ok

\* C21 as stated: from_csv never panics and returns an error for a file with a
\* field that is not a number; a log write that fails makes run return an error,
\* never panic, with the booster as it was.
C21_Original ==
    /\ [](IsSample \/ IsLog => pc # "panicked")
    /\ [][IsSample /\ pc = "init" /\ booster.opens
            /\ CsvHasBadField(booster.lines, booster.has_header) => pc' = "failed"]_vars
    /\ [][IsLog /\ pc = "logging" /\ pc' # "checking" =>
            pc' = "failed" /\ booster' = booster]_vars
-----------------------------------------------------------------------------
(* Properties of CombinedHypothesis *)

IsHyp == booster.alg = "CombinedHypothesis"

\* the list is the single entry (1.0, h) and the constant is the default
SingleEntry(f) ==
    /\ Len(f.inner) = 1 /\ f.inner[1].w = F64Of(ROne)
    /\ f.constant = F64PosZero

\* the same confidence: equal as numbers, or both NaN
SameConfidence(a, b) == F64Eq(a, b) \/ (F64IsNaN(a) /\ F64IsNaN(b))

\* constant + sum_j w_j * h_j.confidence(row), as a real number
RealConfidence(f, row) ==
    RAdd(F64Real(f.constant),
         RSumTo([j \in DOMAIN f.inner |->
                    RMul(F64Real(f.inner[j].w), F64Real(f.inner[j].h[row]))], Len(f.inner)))

AllFinite(f, row) ==
    /\ ~F64IsNaN(f.constant)
    /\ \A j \in DOMAIN f.inner : ~F64IsNaN(f.inner[j].h[row])

\* C22 as stated: the combined hypothesis of the single entry (1.0, h) gives every
\* row the confidence and the label that h gives it; in general the confidence is
\* constant + sum_j w_j * h_j.confidence(row) and the label is its sign.
C22_Original ==
    IsHyp /\ pc = "returned" =>
       /\ SingleEntry(booster) =>
             LET c == booster.inner[1].h[output.row]
             IN  /\ output.kind = "confidence" => SameConfidence(output.value, c)
                 /\ output.kind = "predict" => output.value = Classifier_predict(c)
       /\ AllFinite(booster, output.row) =>
             LET r == RealConfidence(booster, output.row)
             IN  /\ output.kind = "confidence" => F64Real(output.value) = r
                 /\ output.kind = "predict" /\ r # RZero =>
                       output.value = (IF RLt(r, RZero) THEN -1 ELSE 1)
-----------------------------------------------------------------------------
(* Properties of the hypothesis weights of CERLPBoost *)

\* clip(x, 0, 1) of a quotient numer / denom, which is +inf or -inf for denom = 0
FpClipQuotient(numer, denom) ==
    IF denom = 0 THEN (IF numer < 0 THEN 0 ELSE FpOne)
    ELSE LET q == FpDiv(numer, denom)
         IN  IF q < 0 THEN 0 ELSE IF q > FpOne THEN FpOne ELSE q

\* tau of a round: the gap vector g of h against the stored classifiers, the
\* distribution d of the round
CerlpTau(b, h, d) ==
    LET g == CERLPBoost_gap_vec(b, h, sample)
        norm == MaxTo([i \in Rows |-> Abs(g[i])], NumRows)
    IN  FpClipQuotient(CERLPBoost_diff(g, d), FpMul(b.eta, FpMul(norm, norm)))

CerlpPosition(classifiers, h) == {k \in DOMAIN classifiers : classifiers[k].h = h}

\* C23: a round of CERLPBoost that goes on takes tau = clip(<g,d> / (eta *
\* ||g||_inf^2), 0, 1); a stored hypothesis equal to h gets w_j + tau and every
\* other one (1 - tau) * w_i; a new h leaves the stored ones at (1 - tau) * w_i
\* and is appended with the weight tau.
C23_CorrectiveStep ==
    [][IsCerlp /\ BoostCall /\ ret'.flow = "Continue" =>
         LET h == produced'
             old == booster.classifiers
             new == booster'.classifiers
             tau == CerlpTau(booster, h, booster'.dist)
         IN  /\ \A k \in DOMAIN old :
                   /\ new[k].h = old[k].h
                   /\ new[k].w = IF old[k].h = h THEN old[k].w + tau
                                 ELSE FpMul(old[k].w, FpOne - tau)
             /\ IF CerlpPosition(old, h) # {}
                THEN Len(new) = Len(old)
                ELSE new = Append(SubSeq(new, 1, Len(old)), [h |-> h, w |-> tau])]_vars

\* the third round returned a hypothesis that was stored already, next to another
\* one whose weight was scaled by a step that is neither 0 nor 1
C23_Witness ==
    /\ IsCerlp /\ pc = "running" /\ ret.flow = "Continue"
    /\ iteration = 3 /\ Len(booster.classifiers) = 2
    /\ \E k \in 1..2 :
          /\ booster.classifiers[k].h = produced
          /\ booster.classifiers[3 - k].w \notin {0, FpOne}
          /\ booster.classifiers[k].w > booster.classifiers[3 - k].w
-----------------------------------------------------------------------------
(* Properties of SoftBoost *)

IsSoft == booster.alg = "SoftBoost"

\* C24 as stated: a boost call of SoftBoost whose inner program is infeasible, or
\* in which an inner update leaves a zero entry in dist, returns Terminate with
\* terminated = iteration and without a panic, and no inner program is built
\* around a dist with a zero entry.
C24_Original ==
    [][IsSoft /\ BoostCall /\ wl_calls' = wl_calls + 1 =>
         /\ ret'.zero_programs = 0
         /\ ret'.infeasible \/ SoftHasZero(booster'.dist) =>
               /\ pc' = "stopped" /\ ret'.flow = "Terminate"
               /\ booster'.terminated = iteration']_vars
-----------------------------------------------------------------------------
(* Properties of postprocess after a run without a hypothesis *)

\* C25 as stated: once preprocess has returned, whatever boost calls followed,
\* postprocess of CERLPBoost returns a combined hypothesis and does not panic.
C25_Original ==
    [][IsCerlp /\ pc \in {"running", "stopped", "post"} /\ iteration' = iteration
         /\ wl_calls' = wl_calls =>
            /\ pc' = "post"
            /\ output'.kind = "CombinedHypothesis"]_vars
-----------------------------------------------------------------------------
(* Properties of the sum of the hypothesis weights of CERLPBoost *)

CerlpWeightSum(classifiers) ==
    SumTo([k \in DOMAIN classifiers |-> classifiers[k].w], Len(classifiers))

\* the rounding of the fixed-point products: half a unit for each stored weight in
\* each round
CerlpRounding(b) == Len(b.classifiers) * AdaRounds

\* C26 as stated: after every round of CERLPBoost every hypothesis weight is at
\* least 0 and the weights sum to at most 1, so that the combined confidence of a
\* row lies between the smallest and the largest confidence a hypothesis gives it.
C26_Original ==
    IsCerlp /\ pc \in {"running", "stopped"} =>
       /\ \A k \in DOMAIN booster.classifiers : booster.classifiers[k].w >= 0
       /\ CerlpWeightSum(booster.classifiers) <= FpOne + CerlpRounding(booster)
       /\ \A i \in Rows :
             Abs(CERLPBoost_prediction(i, booster.classifiers))
                <= FpOne + CerlpRounding(booster)
-----------------------------------------------------------------------------
(* Properties of the parameter check of SmoothBoost *)

\* C27 as stated: preprocess of a SmoothBoost that holds the parameters of init
\* (kappa = 0.5, gamma = 0.5) returns; preprocess panics exactly for a kappa
\* outside (0, 1) or a gamma outside [theta, 0.5), theta = gamma / (2 + gamma).
C27_Original ==
    [][IsSmb /\ pc = "init" /\ pc' \in {"running", "panicked"} =>
          /\ (booster.kappa = SmoothBoost_init.kappa /\ booster.gamma = SmoothBoost_init.gamma)
                => pc' = "running"
          /\ pc' = "panicked" <=>
                \/ ~(0 < booster.kappa /\ booster.kappa < FpOne)
                \/ ~(/\ FpDiv(booster.gamma, 2 * FpOne + booster.gamma) <= booster.gamma
                     /\ booster.gamma < FpOne \div 2)]_vars
-----------------------------------------------------------------------------
(* Properties of the edges of GraphSepBoost *)

\* C28: after every boost call of GraphSepBoost the edge (i, j) is present, at
\* i and at j, exactly when the rows i and j have different labels and no
\* hypothesis collected so far predicts different labels for them.
C28_EdgesLeft ==
    IsGsb /\ pc \in {"running", "stopped"} /\ iteration >= 1 =>
        \A i, j \in Rows :
            (j \in booster.edges[i]) <=>
                (sample[i] # sample[j] /\ ~Separated(booster.hypotheses, i, j))

\* two hypotheses are collected, an edge is gone and another one is left
C28_Witness ==
    /\ IsGsb /\ pc \in {"running", "stopped"} /\ iteration >= 2
    /\ Len(booster.hypotheses) >= 2
    /\ \E i, j \in Rows : j \in booster.edges[i]
    /\ \E i, j \in Rows : sample[i] # sample[j] /\ j \notin booster.edges[i]

-----------------------------------------------------------------------------
(* Properties of the running prediction of GBM *)

\* C29: after preprocess and after every boost call of GBM, predictions[i] is
\* the sum over the stored pairs of weights[j] * hypotheses[j].predict(i), which
\* is the prediction at row i of the combined hypothesis that postprocess
\* returns in that state; the vector handed to the weak learner is that sum
\* over the pairs stored before the call.
C29_RunningPrediction ==
    /\ IsGbm /\ pc \in {"running", "stopped"} =>
          /\ Len(booster.weights) = Len(booster.hypotheses)
          /\ \A i \in Rows :
                 /\ booster.predictions[i] =
                        RSumTo([j \in DOMAIN booster.weights |->
                                   RMul(booster.weights[j], RInt(booster.hypotheses[j][i]))],
                               Len(booster.weights))
                 /\ booster.predictions[i] =
                        CombinedHypothesis_Regressor_predict(GBM_postprocess(booster).f, i)
    /\ IsGbm /\ pc = "running" /\ wl_calls >= 1 =>
          \A i \in Rows :
              given[i] = RSumTo([j \in 1..(Len(booster.weights) - 1) |->
                                    RMul(booster.weights[j], RInt(booster.hypotheses[j][i]))],
                                Len(booster.weights) - 1)

\* two pairs are stored and the second round was given a non-zero prediction
C29_Witness ==
    /\ IsGbm /\ pc = "running" /\ iteration = 2
    /\ Len(booster.hypotheses) = 2
    /\ booster.hypotheses[1] # booster.hypotheses[2]
    /\ \E i \in Rows : given[i] # RZero
    /\ \E i \in Rows : booster.predictions[i] # given[i]

-----------------------------------------------------------------------------
(* Properties of the hypothesis lists of CERLPBoost and MLPBoost *)

IsMlp == booster.alg = "MLPBoost"

\* the hypotheses of the list of a booster, in the order of the list
StoredHypotheses(b) ==
    IF b.alg = "CERLPBoost" THEN [k \in DOMAIN b.classifiers |-> b.classifiers[k].h]
    ELSE b.classifiers

NoTwoEqual(hs) == \A j, k \in DOMAIN hs : hs[j] = hs[k] => j = k

\* C30: the hypothesis lists of CERLPBoost and MLPBoost never hold two equal
\* hypotheses, and MLPBoost keeps one weight for every stored hypothesis.  A boost
\* call whose weak learner returns a stored hypothesis leaves the list of
\* hypotheses as it was; a call that goes on to the weight update with a
\* hypothesis that is not stored appends it at the end.
C30_NoEqualHypotheses ==
    /\ [](IsCerlp \/ IsMlp =>
            /\ NoTwoEqual(StoredHypotheses(booster))
            /\ IsMlp => Len(booster.weights) = Len(booster.classifiers))
    /\ [][(IsCerlp \/ IsMlp) /\ BoostCall /\ wl_calls' = wl_calls + 1 =>
            LET before == StoredHypotheses(booster)
                after == StoredHypotheses(booster')
            IN  IF \E k \in DOMAIN before : before[k] = produced'
                THEN after = before
                ELSE after = before \/ after = Append(before, produced')]_vars

\* MLPBoost went on after a third round whose hypothesis was the first of the two stored ones
C30_Witness ==
    /\ IsMlp /\ pc = "running" /\ iteration = 3 /\ wl_calls = 3
    /\ Len(booster.classifiers) = 2
    /\ produced = booster.classifiers[1]
    /\ booster.weights[1] > 0

=============================================================================
